---------------------------- MODULE Spec2Model ----------------------------
(***************************************************************************)
(* State-machine model of the vetconnect API (src/server.js).              *)
(*                                                                         *)
(* src/server.js holds two iterations of the server one after the other:   *)
(* the current one (lines 1-2786, routes under /utilizadores) and an       *)
(* earlier one (lines 2787-4689, routes under /usuarios).  Definitions     *)
(* whose name starts with Old model the earlier iteration.                 *)
(*                                                                         *)
(* Time is counted in hours.  A database table is a set of rows (records). *)
(* A JavaScript value that can be absent is an integer: Undef, Null, 0 or  *)
(* a positive id.  SQL NULL is Null.                                       *)
(***************************************************************************)
EXTENDS Integers, Sequences, FiniteSets, TLC

\* ------------------------------------------------------------- bounds ---
MaxUsers == 2
MaxTime == 4
MaxTokens == 2
MaxConsultas == 2
MaxRequests == 2
MaxRows == 2
MaxCreated == 1
TzOffset == 1

\* -------------------------------------------------- program constants ---
TokenTTL == 3
CleanupInterval == 1
PinLength == 6
HoursPerDay == 24
DebugUserId == 999

\* ---------------------------------------------------------- JS values ---
Undef == -2
Null == -1

Truthy(v) == v \notin {Undef, Null, 0}

NoDate == -100
BadDate == -101

Digits == {"0", "1", "2", "3", "4", "5", "6", "7", "8", "9"}

\* A string of the request body is a tuple of characters; <<>> stands for
\* a missing (undefined) or empty value, both falsy in JavaScript.
Pin1 == <<"1", "2", "3", "4", "5", "6">>
Pin2 == <<"6", "5", "4", "3", "2", "1">>
PinAlpha == <<"a", "b", "c", "d", "e", "f">>
PinShort == <<"1", "2", "3", "4", "5">>
PinLong == <<"1", "2", "3", "4", "5", "6", "7">>
NoPin == <<>>

\* The JSON number 123456, as opposed to the JSON string "123456"
PinNumber1 == <<"number", "1", "2", "3", "4", "5", "6">>

\* String(v): a number is written in decimal, a string is itself
JsString(v) == IF v # <<>> /\ v[1] = "number" THEN Tail(v) ELSE v

Emails == {"a@x", "b@x"}
NoEmail == ""
GoodPhones == {"911111111", "922222222"}
BadPhone == "12"
NoPhone == ""
Codes == {"111111", "222222"}
NoCode == ""
Tipos == {"tutor", "veterinario"}

\* The tables created by initDatabase
AllTables ==
    {"users", "clinicas", "veterinarios", "consultas", "animais", "tipos_exame",
     "exames", "invalidated_tokens", "tipos_vacina", "vacinas"}

\* Two rows of animais, one for each of two tutors
Animal1 == [id |-> 1, tutorId |-> 1, nome |-> "Rex"]
Animal2 == [id |-> 2, tutorId |-> 2, nome |-> "Bobi"]

\* -------------------------------------------------------------- state ---
VARIABLES
    users,               \* table users
    nextUserId,          \* sequence users_id_seq
    animais,             \* table animais
    consultas,           \* table consultas
    nextConsultaId,      \* sequence consultas_id_seq
    invalidated_tokens,  \* table invalidated_tokens
    issued,              \* tokens returned by login so far
    loggedOut,           \* tokens for which logout answered 200
    now,                 \* the clock, in hours
    debugMode,           \* process.env.DEBUG_MODE === 'true'
    serverPc,            \* position of startServer
    nextSweep,           \* time at which the setInterval timer fires next
    inflight,            \* requests whose handler is between two queries
    last,                \* the last response sent (or timer callback run)
    nextAnimalId,        \* sequence animais_id_seq
    vacinas,             \* table vacinas
    nextVacinaId,        \* sequence vacinas_id_seq
    exames,              \* table exames
    nextExameId,         \* sequence exames_id_seq
    receitas,            \* table receitas (earlier iteration)
    nextReceitaId,       \* sequence receitas_id_seq
    tables,              \* the tables that exist in the database
    seeded               \* reference data (clinics, veterinarians, types) is there

vars == <<users, nextUserId, animais, consultas, nextConsultaId, invalidated_tokens,
          issued, loggedOut, now, debugMode, serverPc, nextSweep, inflight,
          last, nextAnimalId, vacinas, nextVacinaId, exames, nextExameId,
          receitas, nextReceitaId, tables, seeded>>

\* ------------------------------------------------------------ helpers ---
\* bcrypt.hash / bcrypt.compare: the salt is left out, a hash matches
\* exactly the string it was made from.
BcryptHash(s) == <<"bcrypt", s>>

NullPin == <<"null">>

BcryptCompare(s, h) == h = BcryptHash(s)

\* jwt.sign({id, email}, secret, {expiresIn: '3h'}): the token is determined
\* by the payload and the time of issue.
JwtSign(u, t) == [uid |-> u.id, email |-> u.email, iat |-> t, sig |-> "ok"]

NoToken == [uid |-> 0, email |-> "", iat |-> 0, sig |-> "none"]

ForgedToken == [uid |-> 1, email |-> "a@x", iat |-> 0, sig |-> "bad"]

JwtExp(tok) == tok.iat + TokenTTL

\* jwt.verify: the signature must be good and the clock before exp.
JwtVerify(tok, t) == tok.sig = "ok" /\ t < JwtExp(tok)

\* The debug user registered as a tutor
DebugUserTutor == [id |-> DebugUserId, email |-> "debug@teste.com", tipo |-> "tutor"]

DebugUser == [id |-> DebugUserId, email |-> "debug@teste.com", tipo |-> "veterinario"]

AuthenticateTokenNoBlacklist(debugQ, tok, dbFail) ==
    IF debugMode /\ debugQ
    THEN [next |-> TRUE, status |-> 0, error |-> "", user |-> DebugUser]
    ELSE IF tok = NoToken
    THEN [next |-> FALSE, status |-> 401, error |-> "Token de autenticacao necessario",
          user |-> DebugUser]
    ELSE IF ~JwtVerify(tok, now)
    THEN [next |-> FALSE, status |-> 403, error |-> "Token invalido ou expirado",
          user |-> DebugUser]
    ELSE [next |-> TRUE, status |-> 0, error |-> "",
          user |-> [id |-> tok.uid, email |-> tok.email, tipo |-> "undefined"]]

\* authenticateToken of the current iteration, together with the debug
\* middleware that runs before it.  debugQ is req.query.debug === 'true',
\* dbFail says that the blacklist query is rejected.
AuthenticateToken(debugQ, tok, dbFail) ==
    IF debugMode /\ debugQ
    THEN [next |-> TRUE, status |-> 0, error |-> "", user |-> DebugUser]
    ELSE IF tok = NoToken
    THEN [next |-> FALSE, status |-> 401, error |-> "Token de autenticacao necessario",
          user |-> DebugUser]
    ELSE IF dbFail
    THEN [next |-> FALSE, status |-> 500, error |-> "Erro interno do servidor",
          user |-> DebugUser]
    ELSE IF \E r \in invalidated_tokens : r.token = tok
    THEN [next |-> FALSE, status |-> 403, error |-> "Token revogado. Faca login novamente.",
          user |-> DebugUser]
    ELSE IF ~JwtVerify(tok, now)
    THEN [next |-> FALSE, status |-> 403, error |-> "Token invalido ou expirado",
          user |-> DebugUser]
    ELSE [next |-> TRUE, status |-> 0, error |-> "",
          user |-> [id |-> tok.uid, email |-> tok.email, tipo |-> "undefined"]]

\* The inputs of authenticateToken: ?debug=true, the bearer token, and
\* whether the blacklist query is rejected by the database.
Bearer(tok) == [debugQ |-> FALSE, tok |-> tok, dbFail |-> FALSE]

AuthOf(a) == AuthenticateToken(a.debugQ, a.tok, a.dbFail)

\* The response to a request: route, status, whether the route's handler
\* ran (for a guarded route: whether authenticateToken called next), the
\* inputs of authenticateToken, the error text of authenticateToken and
\* the request's other inputs.
Resp(op, status, req) ==
    [op |-> op, status |-> status, ran |-> TRUE, a |-> Bearer(NoToken),
     err |-> "", req |-> req]

GuardedResp(op, status, a, req) ==
    [op |-> op, status |-> status, ran |-> TRUE, a |-> a, err |-> "", req |-> req]

\* The answer of authenticateToken when it does not call next.
Rejected(op, a, req) ==
    [op |-> op, status |-> AuthOf(a).status, ran |-> FALSE, a |-> a,
     err |-> AuthOf(a).error, req |-> req]

UsersByEmail(e) == {u \in users : u.email = e}

UsersByPhone(t) == {u \in users : u.telemovel = t}

UsersById(i) == {u \in users : u.id = i}

\* /^\+?[0-9]{9,15}$/ on the phone numbers of the model
TelemovelRegex(t) == t \in GoodPhones

UnchangedBut(changed) ==
    /\ IF "users" \in changed THEN TRUE ELSE UNCHANGED users
    /\ IF "nextUserId" \in changed THEN TRUE ELSE UNCHANGED nextUserId
    /\ IF "consultas" \in changed THEN TRUE ELSE UNCHANGED <<consultas, nextConsultaId>>
    /\ IF "invalidated_tokens" \in changed THEN TRUE ELSE UNCHANGED invalidated_tokens
    /\ IF "issued" \in changed THEN TRUE ELSE UNCHANGED issued
    /\ IF "loggedOut" \in changed THEN TRUE ELSE UNCHANGED loggedOut
    /\ IF "now" \in changed THEN TRUE ELSE UNCHANGED now
    /\ IF "server" \in changed THEN TRUE ELSE UNCHANGED <<serverPc, nextSweep>>
    /\ IF "inflight" \in changed THEN TRUE ELSE UNCHANGED inflight
    /\ IF "animais" \in changed THEN TRUE ELSE UNCHANGED <<animais, nextAnimalId>>
    /\ IF "vacinas" \in changed THEN TRUE ELSE UNCHANGED <<vacinas, nextVacinaId>>
    /\ IF "exames" \in changed THEN TRUE ELSE UNCHANGED <<exames, nextExameId>>
    /\ IF "receitas" \in changed THEN TRUE ELSE UNCHANGED <<receitas, nextReceitaId>>
    /\ IF "schema" \in changed THEN TRUE ELSE UNCHANGED <<tables, seeded>>
    /\ UNCHANGED debugMode

\* ------------------------------------------------- routes: utilizador ---

\* POST /utilizadores
PostUtilizadores(email, telemovel, tipo, code) ==
    LET op == "POST /utilizadores"
        req == [email |-> email, telemovel |-> telemovel] IN
    IF email = NoEmail \/ telemovel = NoPhone
    THEN last' = Resp(op, 400, req) /\ UnchangedBut({})
    ELSE IF ~TelemovelRegex(telemovel)
    THEN last' = Resp(op, 400, req) /\ UnchangedBut({})
    ELSE IF UsersByEmail(email) # {}
    THEN last' = Resp(op, 400, req) /\ UnchangedBut({})
    ELSE IF UsersByPhone(telemovel) # {}
    THEN last' = Resp(op, 400, req) /\ UnchangedBut({})
    ELSE /\ nextUserId <= MaxUsers
         /\ nextUserId' = nextUserId + 1
         /\ users' = users \cup
              {[id |-> nextUserId, email |-> email,
                telemovel |-> telemovel, tipo |-> tipo, verificado |-> FALSE,
                codigoVerificacao |-> code, pin |-> NullPin]}
         /\ last' = Resp(op, 201, req)
         /\ UnchangedBut({"users", "nextUserId"})

\* POST /utilizadores/verificar with an UPDATE that leaves the code in place
PostVerificarKeepsCode(email, code) ==
    LET op == "POST /utilizadores/verificar"
        req == [email |-> email, code |-> code] IN
    IF email = NoEmail \/ code = NoCode
    THEN last' = Resp(op, 400, req) /\ UnchangedBut({})
    ELSE IF UsersByEmail(email) = {}
    THEN last' = Resp(op, 404, req) /\ UnchangedBut({})
    ELSE IF \E u \in UsersByEmail(email) : u.codigoVerificacao # code
    THEN last' = Resp(op, 400, req) /\ UnchangedBut({})
    ELSE /\ users' = {IF u.email = email THEN [u EXCEPT !.verificado = TRUE]
                      ELSE u : u \in users}
         /\ last' = Resp(op, 200, req)
         /\ UnchangedBut({"users"})

\* POST /utilizadores/verificar
PostVerificar(email, code) ==
    LET op == "POST /utilizadores/verificar"
        req == [email |-> email, code |-> code] IN
    IF email = NoEmail \/ code = NoCode
    THEN last' = Resp(op, 400, req) /\ UnchangedBut({})
    ELSE IF UsersByEmail(email) = {}
    THEN last' = Resp(op, 404, req) /\ UnchangedBut({})
    ELSE IF \E u \in UsersByEmail(email) : u.codigoVerificacao # code
    THEN last' = Resp(op, 400, req) /\ UnchangedBut({})
    ELSE /\ users' = {IF u.email = email
                      THEN [u EXCEPT !.codigoVerificacao = NoCode, !.verificado = TRUE]
                      ELSE u : u \in users}
         /\ last' = Resp(op, 200, req)
         /\ UnchangedBut({"users"})

\* String(pin).length !== 6
PinFormatOk(pin) == Len(JsString(pin)) = PinLength

\* POST /utilizadores/criar-pin that refuses a user who is not verified
PostCriarPinVerified(email, pin) ==
    LET op == "POST /utilizadores/criar-pin"
        req == [email |-> email, pin |-> pin] IN
    IF email = NoEmail \/ pin = NoPin
    THEN last' = Resp(op, 400, req) /\ UnchangedBut({})
    ELSE IF ~PinFormatOk(pin)
    THEN last' = Resp(op, 400, req) /\ UnchangedBut({})
    ELSE IF UsersByEmail(email) = {}
    THEN last' = Resp(op, 404, req) /\ UnchangedBut({})
    ELSE IF \E u \in UsersByEmail(email) : ~u.verificado
    THEN last' = Resp(op, 403, req) /\ UnchangedBut({})
    ELSE /\ users' = {IF u.email = email THEN [u EXCEPT !.pin = BcryptHash(JsString(pin))]
                      ELSE u : u \in users}
         /\ last' = Resp(op, 200, req)
         /\ UnchangedBut({"users"})

\* POST /utilizadores/criar-pin
PostCriarPin(email, pin) ==
    LET op == "POST /utilizadores/criar-pin"
        req == [email |-> email, pin |-> pin] IN
    IF email = NoEmail \/ pin = NoPin
    THEN last' = Resp(op, 400, req) /\ UnchangedBut({})
    ELSE IF ~PinFormatOk(pin)
    THEN last' = Resp(op, 400, req) /\ UnchangedBut({})
    ELSE IF UsersByEmail(email) = {}
    THEN last' = Resp(op, 404, req) /\ UnchangedBut({})
    ELSE /\ users' = {IF u.email = email THEN [u EXCEPT !.pin = BcryptHash(JsString(pin))]
                      ELSE u : u \in users}
         /\ last' = Resp(op, 200, req)
         /\ UnchangedBut({"users"})

\* POST /utilizadores/login
PostLogin(email, pin) ==
    LET op == "POST /utilizadores/login"
        req == [email |-> email, pin |-> pin, token |-> NoToken] IN
    IF email = NoEmail \/ pin = NoPin
    THEN last' = Resp(op, 400, req) /\ UnchangedBut({})
    ELSE IF UsersByEmail(email) = {} \/ \E u \in UsersByEmail(email) : u.pin = NullPin
    THEN last' = Resp(op, 401, req) /\ UnchangedBut({})
    ELSE LET user == CHOOSE u \in UsersByEmail(email) : TRUE IN
         IF ~BcryptCompare(JsString(pin), user.pin)
         THEN last' = Resp(op, 401, req) /\ UnchangedBut({})
         ELSE /\ Cardinality(issued \cup {JwtSign(user, now)}) <= MaxTokens
              /\ issued' = issued \cup {JwtSign(user, now)}
              /\ last' = Resp(op, 200, [req EXCEPT !.token = JwtSign(user, now)])
              /\ UnchangedBut({"issued"})

\* PUT /utilizadores/:id, the lookup 'email = $1 AND id != $2'
EmailCheck(email, id) == {u \in users : u.email = email /\ u.id # id}

PhoneCheckSkipped(telemovel, id) == {}

\* PUT /utilizadores/:id, the lookup 'telemovel = $1 AND id != $2'
PhoneCheck(telemovel, id) == {u \in users : u.telemovel = telemovel /\ u.id # id}

\* PUT /utilizadores/:id.  outro says that the body carries one of the
\* other fields (nome, nacionalidade, sexo, cc, dataNascimento, morada).
PutUtilizadores(a, id, email, telemovel, outro) ==
    LET op == "PUT /utilizadores/:id"
        req == [id |-> id, email |-> email, telemovel |-> telemovel]
        auth == AuthOf(a) IN
    IF ~auth.next
    THEN last' = Rejected(op, a, req) /\ UnchangedBut({})
    ELSE IF id # auth.user.id
    THEN last' = GuardedResp(op, 403, a, req) /\ UnchangedBut({})
    ELSE IF email = NoEmail /\ telemovel = NoPhone /\ ~outro
    THEN last' = GuardedResp(op, 400, a, req) /\ UnchangedBut({})
    ELSE IF UsersById(id) = {}
    THEN last' = GuardedResp(op, 404, a, req) /\ UnchangedBut({})
    ELSE IF email # NoEmail /\ EmailCheck(email, id) # {}
    THEN last' = GuardedResp(op, 400, a, req) /\ UnchangedBut({})
    ELSE IF telemovel # NoPhone /\ PhoneCheck(telemovel, id) # {}
    THEN last' = GuardedResp(op, 400, a, req) /\ UnchangedBut({})
    ELSE IF telemovel # NoPhone /\ ~TelemovelRegex(telemovel)
    THEN last' = GuardedResp(op, 400, a, req) /\ UnchangedBut({})
    ELSE /\ users' = {IF u.id = id
                      THEN [u EXCEPT
                              !.email = IF email # NoEmail THEN email ELSE @,
                              !.telemovel = IF telemovel # NoPhone THEN telemovel ELSE @]
                      ELSE u : u \in users}
         /\ last' = GuardedResp(op, 200, a, req)
         /\ UnchangedBut({"users"})

\* POST /utilizadores/alterar-pin
PostAlterarPin(a, pinAtual, novoPin) ==
    LET op == "POST /utilizadores/alterar-pin"
        req == [pinAtual |-> pinAtual, novoPin |-> novoPin]
        auth == AuthOf(a) IN
    IF ~auth.next
    THEN last' = Rejected(op, a, req) /\ UnchangedBut({})
    ELSE IF pinAtual = NoPin \/ novoPin = NoPin
    THEN last' = GuardedResp(op, 400, a, req) /\ UnchangedBut({})
    ELSE IF ~PinFormatOk(pinAtual) \/ ~PinFormatOk(novoPin)
    THEN last' = GuardedResp(op, 400, a, req) /\ UnchangedBut({})
    ELSE IF pinAtual = novoPin
    THEN last' = GuardedResp(op, 400, a, req) /\ UnchangedBut({})
    ELSE IF UsersById(auth.user.id) = {}
    THEN last' = GuardedResp(op, 404, a, req) /\ UnchangedBut({})
    ELSE LET user == CHOOSE u \in UsersById(auth.user.id) : TRUE IN
         IF user.pin = NullPin
         THEN last' = GuardedResp(op, 400, a, req) /\ UnchangedBut({})
         ELSE IF ~BcryptCompare(JsString(pinAtual), user.pin)
         THEN last' = GuardedResp(op, 401, a, req) /\ UnchangedBut({})
         ELSE /\ users' = {IF u.id = user.id THEN [u EXCEPT !.pin = BcryptHash(JsString(novoPin))]
                           ELSE u : u \in users}
                   /\ last' = GuardedResp(op, 200, a, req)
              /\ UnchangedBut({"users"})

\* POST /utilizadores/logout
PostLogout(a) ==
    LET op == "POST /utilizadores/logout"
        req == [token |-> a.tok]
        auth == AuthOf(a) IN
    IF ~auth.next
    THEN last' = Rejected(op, a, req) /\ UnchangedBut({})
    ELSE IF debugMode /\ a.debugQ
    THEN \* jwt.decode('debug-token') is null: decoded.exp throws
         last' = GuardedResp(op, 500, a, req) /\ UnchangedBut({})
    ELSE IF UsersById(auth.user.id) = {}
    THEN \* the insert violates the foreign key user_id -> users(id)
         last' = GuardedResp(op, 500, a, req) /\ UnchangedBut({})
    ELSE /\ invalidated_tokens' = invalidated_tokens \cup
              {[token |-> a.tok, expires_at |-> JwtExp(a.tok), user_id |-> auth.user.id]}
         /\ loggedOut' = loggedOut \cup {a.tok}
         /\ last' = GuardedResp(op, 200, a, req)
         /\ UnchangedBut({"invalidated_tokens", "loggedOut"})

\* GET /utilizadores, a guarded route that only reads
GetUtilizadores(a) ==
    LET op == "GET /utilizadores"
        req == [token |-> a.tok]
        auth == AuthOf(a) IN
    IF ~auth.next
    THEN last' = Rejected(op, a, req) /\ UnchangedBut({})
    ELSE last' = GuardedResp(op, 200, a, req) /\ UnchangedBut({})

\* --------------------------------------------------- routes: consultas ---

\* Rows of the seeded tables clinicas and veterinarios (the first two
\* clinics and their first three veterinarians)
Clinicas == {1, 2}

Veterinarios ==
    {[id |-> 1, clinicaId |-> 1], [id |-> 2, clinicaId |-> 1], [id |-> 3, clinicaId |-> 2]}

\* Columns of table consultas
ConsultasColumns ==
    {"id", "userId", "animalId", "clinicaId", "veterinarioId", "data", "hora",
     "motivo", "estado", "dataMarcacao"}

\* Columns assigned by the UPDATE of PUT /consultas/:id
PutConsultasSetColumns ==
    {"motivo", "data", "hora", "clinicaId", "veterinarioId", "observacoes"}

\* fullDate.toISOString().split('T')[0]: the UTC date of the instant
DataSql(d) == d \div HoursPerDay

\* fullDate.toTimeString().split(' ')[0]: the local time of day
HoraSql(d) == (d + TzOffset) % HoursPerDay

\* new Date() with setHours(0, 0, 0, 0): local midnight of the current day
Hoje(t) == ((t + TzOffset) \div HoursPerDay) * HoursPerDay - TzOffset

\* The Date that pg returns for a DATE column: local midnight of that day
DateOfColumn(day) == day * HoursPerDay - TzOffset

\* SQL '=': never true when an operand is NULL
SqlEq(x, y) == x # Null /\ y # Null /\ x = y

ConsultaConflitoNone(vet, data, hora) == {}

\* POST /consultas: the rows of the conflict SELECT
ConsultaConflito(vet, data, hora) ==
    {c \in consultas : /\ SqlEq(c.veterinarioId, vet)
                       /\ c.data = data
                       /\ c.hora = hora
                       /\ c.estado # "cancelada"}

ConflitoQuerySelf(vet, data, hora, id) ==
    {c \in consultas : /\ SqlEq(c.veterinarioId, vet)
                       /\ c.data = data
                       /\ c.hora = hora
                       /\ c.estado # "cancelada"}

\* PUT /consultas/:id: the rows of the conflict SELECT
ConflitoQuery(vet, data, hora, id) ==
    {c \in consultas : /\ SqlEq(c.veterinarioId, vet)
                       /\ c.data = data
                       /\ c.hora = hora
                       /\ c.estado # "cancelada"
                       /\ c.id # id}

VeterinarioCheck(vet, clinica) ==
    {v \in Veterinarios : SqlEq(v.id, vet) /\ SqlEq(v.clinicaId, clinica)}

InsertAcceptedIfUnique(row) ==
    ConsultaConflito(row.veterinarioId, row.data, row.hora) = {}

\* Constraints of table consultas checked by the INSERT of POST /consultas:
\* the foreign keys hold for a row that passed the checks, and there is no
\* UNIQUE constraint on (veterinarioId, data, hora).
InsertAccepted(row) == TRUE

\* POST /consultas up to and including the conflict SELECT: the status of
\* the error response, or 0 when the handler goes on to the INSERT.
PostConsultasCheck(user, b) ==
    IF ~Truthy(b.animalId) \/ ~Truthy(b.clinicaId) \/ ~Truthy(b.veterinarioId)
         \/ b.data = NoDate
    THEN 400
    ELSE IF b.data = BadDate THEN 400
    ELSE IF b.data < Hoje(now) THEN 400
    ELSE IF {an \in animais : an.id = b.animalId} = {} THEN 404
    ELSE IF \E an \in animais : an.id = b.animalId /\ an.tutorId # user.id THEN 403
    ELSE IF VeterinarioCheck(b.veterinarioId, b.clinicaId) = {} THEN 400
    ELSE IF b.clinicaId \notin Clinicas THEN 404
    ELSE IF ConsultaConflito(b.veterinarioId, DataSql(b.data), HoraSql(b.data)) # {} THEN 409
    ELSE 0

\* A row inserted with estado 'realizada'
NovaConsultaRealizada(user, b) ==
    [id |-> nextConsultaId, userId |-> user.id, animalId |-> b.animalId,
     clinicaId |-> b.clinicaId, veterinarioId |-> b.veterinarioId,
     data |-> DataSql(b.data), hora |-> HoraSql(b.data), estado |-> "realizada"]

\* The row inserted by POST /consultas
NovaConsulta(user, b) ==
    [id |-> nextConsultaId, userId |-> user.id, animalId |-> b.animalId,
     clinicaId |-> b.clinicaId, veterinarioId |-> b.veterinarioId,
     data |-> DataSql(b.data), hora |-> HoraSql(b.data), estado |-> "marcada"]

\* POST /consultas, handled without interleaving
PostConsultas(a, b) ==
    LET op == "POST /consultas"
        auth == AuthOf(a) IN
    IF ~auth.next
    THEN last' = Rejected(op, a, b) /\ UnchangedBut({})
    ELSE IF PostConsultasCheck(auth.user, b) # 0
    THEN last' = GuardedResp(op, PostConsultasCheck(auth.user, b), a, b) /\ UnchangedBut({})
    ELSE IF ~InsertAccepted(NovaConsulta(auth.user, b))
    THEN last' = GuardedResp(op, 500, a, b) /\ UnchangedBut({})
    ELSE /\ nextConsultaId <= MaxConsultas
         /\ consultas' = consultas \cup {NovaConsulta(auth.user, b)}
         /\ nextConsultaId' = nextConsultaId + 1
         /\ last' = GuardedResp(op, 201, a, b)
         /\ UnchangedBut({"consultas"})

\* DELETE /consultas/:id that answers 200 and leaves the row in the table
DeleteConsultasKeepsRow(a, id) ==
    LET op == "DELETE /consultas/:id"
        req == [id |-> id]
        auth == AuthOf(a)
        found == {c \in consultas : c.id = id} IN
    IF ~auth.next
    THEN last' = Rejected(op, a, req) /\ UnchangedBut({})
    ELSE IF found = {}
    THEN last' = GuardedResp(op, 404, a, req) /\ UnchangedBut({})
    ELSE LET consulta == CHOOSE c \in found : TRUE IN
         IF consulta.userId # auth.user.id /\ auth.user.tipo # "veterinario"
         THEN last' = GuardedResp(op, 403, a, req) /\ UnchangedBut({})
         ELSE IF DateOfColumn(consulta.data) < Hoje(now)
         THEN last' = GuardedResp(op, 400, a, req) /\ UnchangedBut({})
         ELSE /\ last' = GuardedResp(op, 200, a, [id |-> id, detalhes |-> consulta])
              /\ UnchangedBut({})

\* DELETE /consultas/:id.  The response to a cancellation carries the row
\* that was read before it was removed (detalhes).
DeleteConsultas(a, id) ==
    LET op == "DELETE /consultas/:id"
        req == [id |-> id]
        auth == AuthOf(a)
        found == {c \in consultas : c.id = id} IN
    IF ~auth.next
    THEN last' = Rejected(op, a, req) /\ UnchangedBut({})
    ELSE IF found = {}
    THEN last' = GuardedResp(op, 404, a, req) /\ UnchangedBut({})
    ELSE LET consulta == CHOOSE c \in found : TRUE IN
         IF consulta.userId # auth.user.id /\ auth.user.tipo # "veterinario"
         THEN last' = GuardedResp(op, 403, a, req) /\ UnchangedBut({})
         ELSE IF DateOfColumn(consulta.data) < Hoje(now)
         THEN last' = GuardedResp(op, 400, a, req) /\ UnchangedBut({})
         ELSE /\ consultas' = consultas \ found
              /\ nextConsultaId' = nextConsultaId
              /\ last' = GuardedResp(op, 200, a, [id |-> id, detalhes |-> consulta])
              /\ UnchangedBut({"consultas"})

\* PUT /consultas/:id.  An absent body field is Undef (NoDate for data).
\* orig.data !== novaDataSql compares a Date object with a string, so
\* dataMudou is true whenever data is supplied.  The UPDATE names the
\* column observacoes, which table consultas does not have: the statement
\* is rejected and the handler answers 500.
PutConsultas(a, id, b) ==
    LET op == "PUT /consultas/:id"
        req == [id |-> id, data |-> b.data, clinicaId |-> b.clinicaId,
                veterinarioId |-> b.veterinarioId]
        auth == AuthOf(a)
        found == {c \in consultas : c.id = id} IN
    IF ~auth.next
    THEN last' = Rejected(op, a, req) /\ UnchangedBut({})
    ELSE IF found = {}
    THEN last' = GuardedResp(op, 404, a, req) /\ UnchangedBut({})
    ELSE LET originalConsulta == CHOOSE c \in found : TRUE
             novaClinicaId == IF b.clinicaId # Undef THEN b.clinicaId
                              ELSE originalConsulta.clinicaId
             novoVeterinarioId == IF b.veterinarioId # Undef THEN b.veterinarioId
                                  ELSE originalConsulta.veterinarioId
             novaDataSql == IF b.data # NoDate THEN DataSql(b.data) ELSE originalConsulta.data
             novaHoraSql == IF b.data # NoDate THEN HoraSql(b.data) ELSE originalConsulta.hora
             dataMudou == b.data # NoDate
             veterinarioMudou == Truthy(b.veterinarioId)
                                 /\ novoVeterinarioId # originalConsulta.veterinarioId
             clinicaMudou == Truthy(b.clinicaId)
                             /\ novaClinicaId # originalConsulta.clinicaId
             fkOk == /\ novoVeterinarioId = Null \/ \E v \in Veterinarios : v.id = novoVeterinarioId
                     /\ novaClinicaId = Null \/ novaClinicaId \in Clinicas IN
         IF originalConsulta.userId # auth.user.id
         THEN last' = GuardedResp(op, 403, a, req) /\ UnchangedBut({})
         ELSE IF b.data = BadDate
         THEN last' = GuardedResp(op, 400, a, req) /\ UnchangedBut({})
         ELSE IF b.data # NoDate /\ b.data < Hoje(now)
         THEN last' = GuardedResp(op, 400, a, req) /\ UnchangedBut({})
         ELSE IF (veterinarioMudou \/ clinicaMudou)
                  /\ VeterinarioCheck(novoVeterinarioId, novaClinicaId) = {}
         THEN last' = GuardedResp(op, 400, a, req) /\ UnchangedBut({})
         ELSE IF (dataMudou \/ veterinarioMudou)
                  /\ ConflitoQuery(novoVeterinarioId, novaDataSql, novaHoraSql, id) # {}
         THEN last' = GuardedResp(op, 409, a, req) /\ UnchangedBut({})
         ELSE IF ~(PutConsultasSetColumns \subseteq ConsultasColumns) \/ ~fkOk
         THEN last' = GuardedResp(op, 500, a, req) /\ UnchangedBut({})
         ELSE /\ consultas' = (consultas \ found) \cup
                   {[originalConsulta EXCEPT !.data = novaDataSql, !.hora = novaHoraSql,
                                             !.clinicaId = novaClinicaId,
                                             !.veterinarioId = novoVeterinarioId]}
              /\ nextConsultaId' = nextConsultaId
              /\ last' = GuardedResp(op, 200, a, req)
              /\ UnchangedBut({"consultas"})

\* ------------------------------------------- startup, timer and clock ---

ExpiredRowsAll(t) == invalidated_tokens

ExpiredRowsInclusive(t) == {r \in invalidated_tokens : r.expires_at <= t}

\* The rows matched by 'expires_at < NOW()'
ExpiredRows(t) == {r \in invalidated_tokens : r.expires_at < t}

\* cleanupExpiredTokens: count the expired rows and, when there are some,
\* delete them; a rejected query is caught and logged.  caller is
\* "startup" or "timer".
CleanupExpiredTokens(dbFail, caller) ==
    /\ invalidated_tokens' = IF dbFail \/ ExpiredRows(now) = {}
                             THEN invalidated_tokens
                             ELSE invalidated_tokens \ ExpiredRows(now)
    /\ last' = Resp("cleanupExpiredTokens", IF dbFail THEN 500 ELSE 0,
                    [dbFail |-> dbFail, caller |-> caller])

\* startServer, first step: await initDatabase().  The tables that exist
\* are left as they are (CREATE TABLE IF NOT EXISTS, seed only when empty).
StartInitDatabase ==
    /\ serverPc = "init"
    /\ serverPc' = "cleanup"
    /\ nextSweep' = nextSweep
    /\ last' = Resp("initDatabase", 0, [none |-> TRUE])
    /\ UnchangedBut({"server"})

\* startServer, second step: await cleanupExpiredTokens(), then app.listen
StartCleanupAndListen(dbFail) ==
    /\ serverPc = "cleanup"
    /\ CleanupExpiredTokens(dbFail, "startup")
    /\ serverPc' = "listening"
    /\ nextSweep' = nextSweep
    /\ UnchangedBut({"server", "invalidated_tokens"})

\* setInterval(cleanupExpiredTokens, 3600000): the callback runs when the
\* interval has elapsed and the timer is armed again.
TimerCleanup(dbFail) ==
    /\ now = nextSweep
    /\ CleanupExpiredTokens(dbFail, "timer")
    /\ nextSweep' = nextSweep + CleanupInterval
    /\ serverPc' = serverPc
    /\ UnchangedBut({"server", "invalidated_tokens"})

\* The process is stopped and started again: the module is loaded anew
\* (the timer is armed, startServer is called); the database is kept.
Restart ==
    /\ serverPc = "listening"
    /\ serverPc' = "init"
    /\ nextSweep' = now + CleanupInterval
    /\ last' = Resp("restart", 0, [none |-> TRUE])
    /\ UnchangedBut({"server"})

\* One hour passes.  A due timer callback runs before the hour is over.
Tick ==
    /\ now < MaxTime
    /\ now < nextSweep
    /\ now' = now + 1
    /\ last' = Resp("tick", 0, [none |-> TRUE])
    /\ UnchangedBut({"now"})

\* ------------------------------------------------ specification: users ---
\* Registration, verification, PIN and profile routes of the current
\* iteration, one request at a time, starting from the empty database.

NoLast == [op |-> "none", status |-> 0, ran |-> FALSE, a |-> Bearer(NoToken),
           err |-> "", req |-> [none |-> TRUE]]

InitUsers ==
    /\ users = {}
    /\ nextUserId = 1
    /\ animais = {}
    /\ nextAnimalId = 1
    /\ consultas = {}
    /\ nextConsultaId = 1
    /\ invalidated_tokens = {}
    /\ issued = {}
    /\ loggedOut = {}
    /\ now = 0
    /\ debugMode = FALSE
    /\ serverPc = "listening"
    /\ nextSweep = CleanupInterval
    /\ inflight = <<>>
    /\ last = NoLast
    /\ vacinas = {}
    /\ nextVacinaId = 1
    /\ exames = {}
    /\ nextExameId = 1
    /\ receitas = {}
    /\ nextReceitaId = 1
    /\ tables = AllTables
    /\ seeded = TRUE

NextUsers ==
    \/ \E e \in Emails, t \in GoodPhones : PostUtilizadores(e, t, "tutor", "111111")
    \/ \E e \in Emails, c \in Codes : PostVerificar(e, c)
    \/ \E e \in Emails, p \in {Pin1, PinAlpha, PinShort, NoPin} : PostCriarPin(e, p)
    \/ \E e \in Emails, p \in {Pin1, Pin2, PinAlpha} : PostLogin(e, p)
    \/ \E tok \in issued \cup {NoToken}, p \in {Pin1, PinAlpha}, q \in {Pin2, PinAlpha, PinLong} :
          PostAlterarPin(Bearer(tok), p, q)

SpecUsers == InitUsers /\ [][NextUsers]_vars

\* ---------------------------------------------- specification: profile ---
\* Registration and profile update, one request at a time.  PUT needs a
\* token, so the PIN and login routes are part of the specification.

PutBodies ==
    {<<e, NoPhone>> : e \in Emails} \cup
    {<<NoEmail, t>> : t \in GoodPhones \cup {BadPhone, NoPhone}} \cup
    {<<e, t>> : e \in Emails, t \in GoodPhones}

NextProfile ==
    \/ \E e \in Emails \cup {NoEmail}, t \in GoodPhones \cup {BadPhone} :
          PostUtilizadores(e, t, "tutor", "111111")
    \/ \E e \in Emails : PostCriarPin(e, Pin1)
    \/ \E e \in Emails : PostLogin(e, Pin1)
    \/ \E tok \in issued \cup {NoToken}, id \in 1..MaxUsers, b \in PutBodies :
          PutUtilizadores(Bearer(tok), id, b[1], b[2], b[1] = NoEmail)

SpecProfile == InitUsers /\ [][NextProfile]_vars

\* ----------------------------------------------------- claims: users ---

UniqueEmailPhone ==
    \A u, v \in users : u # v => u.email # v.email /\ u.telemovel # v.telemovel

PostWouldDuplicate(req) ==
    \E u \in users : u.email = req.email \/ u.telemovel = req.telemovel

PutWouldDuplicate(req) ==
    \E u \in users : u.id # req.id /\ (u.email = req.email \/ u.telemovel = req.telemovel)

\* C8: with one request at a time, after any sequence of POST /utilizadores
\* and PUT /utilizadores/:id no two users share an email or a telemovel; a
\* registration, or an update by the authenticated owner, that would
\* duplicate either is answered 400, and no such request changes users.
C8_UniqueEmailPhone ==
    /\ []UniqueEmailPhone
    /\ [][(last'.op = "POST /utilizadores" /\ PostWouldDuplicate(last'.req))
            => (last'.status = 400 /\ users' = users)]_vars
    /\ [][(last'.op = "PUT /utilizadores/:id" /\ PutWouldDuplicate(last'.req))
            => /\ users' = users
               /\ last'.status \in {400, 401, 403}
               /\ (last'.ran /\ last'.a.tok.uid = last'.req.id) => last'.status = 400]_vars

\* Witness of C8: the owner's PUT asked for an email or a telemovel held by
\* the other user and was answered 400.
C8_Witness ==
    /\ last.op = "PUT /utilizadores/:id"
    /\ last.status = 400
    /\ last.ran
    /\ last.a.tok.uid = last.req.id
    /\ Cardinality(users) = 2
    /\ PutWouldDuplicate(last.req)

\* C9: the user lifecycle is ordered: a user is created unverified, a PIN
\* is set only for a verified user, and login issues a token only to a user
\* who is verified and has a PIN.
C9_LifecycleOrdered ==
    /\ (last.op = "POST /utilizadores" /\ last.status = 201)
         => \A u \in UsersByEmail(last.req.email) : ~u.verificado
    /\ (last.op = "POST /utilizadores/criar-pin" /\ last.status = 200)
         => \A u \in UsersByEmail(last.req.email) : u.verificado
    /\ (last.op = "POST /utilizadores/login" /\ last.status = 200)
         => \A u \in UsersByEmail(last.req.email) : u.verificado /\ u.pin # NullPin

IsSixDigits(pin) == Len(pin) = 6 /\ \A i \in 1..Len(pin) : pin[i] \in Digits

\* C10: criar-pin and alterar-pin store a new PIN only if it is exactly six
\* decimal digits, and answer 400 for every other value.
C10_PinSixDigits ==
    /\ last.op = "POST /utilizadores/criar-pin"
         => /\ last.status = 200 => IsSixDigits(JsString(last.req.pin))
            /\ ~IsSixDigits(JsString(last.req.pin)) => last.status = 400
    /\ (last.op = "POST /utilizadores/alterar-pin" /\ last.ran)
         => /\ last.status = 200 => IsSixDigits(JsString(last.req.novoPin))
            /\ ~IsSixDigits(JsString(last.req.novoPin)) => last.status = 400

\* ------------------------------------------------- specification: auth ---
\* Login, logout, a guarded route, the startup sequence, the hourly timer
\* and the clock, on a database that holds one user with a PIN.

UserA ==
    [id |-> 1, email |-> "a@x", telemovel |-> "911111111", tipo |-> "tutor",
     verificado |-> TRUE, codigoVerificacao |-> NoCode, pin |-> BcryptHash(Pin1)]

AuthInputs ==
    {[debugQ |-> q, tok |-> t, dbFail |-> f] :
        q \in BOOLEAN, t \in issued \cup {NoToken, ForgedToken}, f \in BOOLEAN}

InitAuth ==
    /\ users = {UserA}
    /\ nextUserId = 2
    /\ animais = {}
    /\ nextAnimalId = 1
    /\ consultas = {}
    /\ nextConsultaId = 1
    /\ invalidated_tokens = {}
    /\ issued = {}
    /\ loggedOut = {}
    /\ now = 0
    /\ debugMode \in BOOLEAN
    /\ serverPc = "init"
    /\ nextSweep = CleanupInterval
    /\ inflight = <<>>
    /\ last = NoLast
    /\ vacinas = {}
    /\ nextVacinaId = 1
    /\ exames = {}
    /\ nextExameId = 1
    /\ receitas = {}
    /\ nextReceitaId = 1
    /\ tables = AllTables
    /\ seeded = TRUE

NextAuth ==
    \/ StartInitDatabase
    \/ \E f \in BOOLEAN : StartCleanupAndListen(f)
    \/ \E f \in BOOLEAN : TimerCleanup(f)
    \/ Restart
    \/ Tick
    \/ serverPc = "listening" /\ PostLogin("a@x", Pin1)
    \/ serverPc = "listening" /\ \E a \in AuthInputs : PostLogout(a)
    \/ serverPc = "listening" /\ \E a \in AuthInputs : GetUtilizadores(a)

SpecAuth == InitAuth /\ [][NextAuth]_vars

\* ------------------------------------------------------ claims: auth ---

\* Routes registered with authenticateToken (current iteration)
GuardedOps ==
    {"GET /utilizadores", "PUT /utilizadores/:id", "POST /utilizadores/alterar-pin",
     "POST /utilizadores/logout", "POST /consultas", "PUT /consultas/:id",
     "DELETE /consultas/:id"}

Blacklisted(tok) == \E r \in invalidated_tokens : r.token = tok

\* C4: with debug mode off, once logout has succeeded for a token T no
\* later request carrying T passes authenticateToken, whatever the other
\* inputs of the request and also after the sweep has deleted T's row; the
\* handler of a guarded route does not run for such a request.
C4_LogoutRevokes ==
    ~debugMode =>
        /\ \A T \in loggedOut : \A q \in BOOLEAN, f \in BOOLEAN :
               ~AuthenticateToken(q, T, f).next
        /\ \A T \in loggedOut : Blacklisted(T) \/ ~JwtVerify(T, now)
        /\ (/\ last.op \in GuardedOps
            /\ last.a.tok \in loggedOut
            /\ ~(last.op = "POST /utilizadores/logout" /\ last.status = 200))
              => ~last.ran

\* Witness of C4: T was logged out, the sweep has deleted its blacklist row,
\* and a request carrying T has just been refused.
C4_Witness ==
    /\ ~debugMode
    /\ last.op = "GET /utilizadores"
    /\ last.a.tok \in loggedOut
    /\ ~Blacklisted(last.a.tok)
    /\ ~last.ran
    /\ last.status = 403

\* C6: with debug mode off, authenticateToken answers 401 without a token,
\* 500 when the blacklist lookup fails, 403 "revoked" for a blacklisted
\* token whether or not it would verify, 403 "invalid" for a token that
\* fails verification; the handler runs exactly for a token that is not
\* blacklisted and verifies.
C6_AuthGate ==
    [][(last'.op \in GuardedOps /\ ~debugMode) =>
        LET tok == last'.a.tok
            f == last'.a.dbFail IN
        /\ tok = NoToken => (last'.status = 401 /\ ~last'.ran)
        /\ (tok # NoToken /\ f) => (last'.status = 500 /\ ~last'.ran)
        /\ (tok # NoToken /\ ~f /\ Blacklisted(tok))
              => /\ last'.status = 403
                 /\ last'.err = "Token revogado. Faca login novamente."
                 /\ ~last'.ran
        /\ (tok # NoToken /\ ~f /\ ~Blacklisted(tok) /\ ~JwtVerify(tok, now))
              => /\ last'.status = 403
                 /\ last'.err = "Token invalido ou expirado"
                 /\ ~last'.ran
        /\ last'.ran <=> (tok # NoToken /\ ~f /\ ~Blacklisted(tok) /\ JwtVerify(tok, now))
      ]_vars

\* Witness of C6: a token that is both blacklisted and expired was answered
\* from the blacklist lookup.
C6_Witness ==
    /\ ~debugMode
    /\ last.op = "GET /utilizadores"
    /\ last.status = 403
    /\ last.err = "Token revogado. Faca login novamente."
    /\ ~JwtVerify(last.a.tok, now)
    /\ ~last.ran

\* C7: a run of cleanupExpiredTokens whose queries succeed leaves exactly
\* the rows with expires_at >= now; no run removes a row whose expires_at
\* is not earlier than now, and no other table changes.  The step that
\* makes the server listen is the startup run, and the timer runs it again
\* at every multiple of the interval after the module was loaded.
C7_CleanupExact ==
    /\ [][last'.op = "cleanupExpiredTokens" =>
            /\ invalidated_tokens' \subseteq invalidated_tokens
            /\ \A r \in invalidated_tokens \ invalidated_tokens' : r.expires_at < now
            /\ ~last'.req.dbFail =>
                  invalidated_tokens' = {r \in invalidated_tokens : r.expires_at >= now}
            /\ UNCHANGED <<users, nextUserId, animais, consultas, nextConsultaId>>
         ]_vars
    /\ [][(serverPc # "listening" /\ serverPc' = "listening") =>
            (last'.op = "cleanupExpiredTokens" /\ last'.req.caller = "startup")]_vars
    /\ [][(now' # now) => (now < nextSweep /\ now' <= nextSweep)]_vars
    /\ [][(now = nextSweep /\ nextSweep' # nextSweep) =>
            (last'.op \in {"cleanupExpiredTokens", "restart"})]_vars
    /\ [](now <= nextSweep /\ nextSweep <= now + CleanupInterval)

\* Witness of C7: a successful run has removed the row of one logged-out
\* token and kept the row of another.
C7_Witness ==
    /\ last.op = "cleanupExpiredTokens"
    /\ ~last.req.dbFail
    /\ \E T \in loggedOut : ~Blacklisted(T)
    /\ \E T \in loggedOut : Blacklisted(T)

\* -------------------------------------------- specification: consultas ---
\* The appointment routes, one request at a time, on a database in which
\* two tutors have registered, set a PIN, logged in and created one animal
\* each.

UserB ==
    [id |-> 2, email |-> "b@x", telemovel |-> "922222222", tipo |-> "tutor",
     verificado |-> TRUE, codigoVerificacao |-> NoCode, pin |-> BcryptHash(Pin2)]

\* Bodies of POST /consultas: the valid ones and, for each check of the
\* handler, one that fails it
PostBodies ==
    {[animalId |-> an, clinicaId |-> cv[1], veterinarioId |-> cv[2], data |-> d] :
        an \in {1, 2}, cv \in {<<1, 1>>, <<2, 3>>}, d \in {-1, 0}}
    \cup {[animalId |-> 1, clinicaId |-> 1, veterinarioId |-> 1, data |-> d] :
             d \in {NoDate, BadDate, -2 - TzOffset}}
    \cup {[animalId |-> 3, clinicaId |-> 1, veterinarioId |-> 1, data |-> 0],
          [animalId |-> 1, clinicaId |-> 2, veterinarioId |-> 1, data |-> 0]}

\* Bodies of PUT /consultas/:id
PutConsultasBodies ==
    {[data |-> d, clinicaId |-> Undef, veterinarioId |-> v] :
        d \in {NoDate, -1, 0}, v \in {Undef, 1, 3}}
    \cup {[data |-> NoDate, clinicaId |-> cl, veterinarioId |-> v] :
             cl \in {1, 2}, v \in {Undef, 3}}
    \cup {[data |-> NoDate, clinicaId |-> Undef, veterinarioId |-> Null],
          [data |-> -2 - TzOffset, clinicaId |-> Undef, veterinarioId |-> Undef],
          [data |-> BadDate, clinicaId |-> Undef, veterinarioId |-> Undef]}

Init ==
    /\ users = {UserA, UserB}
    /\ nextUserId = 3
    /\ animais = {Animal1, Animal2}
    /\ nextAnimalId = 3
    /\ consultas = {}
    /\ nextConsultaId = 1
    /\ invalidated_tokens = {}
    /\ issued = {JwtSign(UserA, 0), JwtSign(UserB, 0)}
    /\ loggedOut = {}
    /\ now = 0
    /\ debugMode = FALSE
    /\ serverPc = "listening"
    /\ nextSweep = CleanupInterval
    /\ inflight = <<>>
    /\ last = NoLast
    /\ vacinas = {}
    /\ nextVacinaId = 1
    /\ exames = {}
    /\ nextExameId = 1
    /\ receitas = {}
    /\ nextReceitaId = 1
    /\ tables = AllTables
    /\ seeded = TRUE

Next ==
    \/ \E tok \in issued, b \in PostBodies : PostConsultas(Bearer(tok), b)
    \/ \E tok \in issued, id \in 1..MaxConsultas, b \in PutConsultasBodies :
          PutConsultas(Bearer(tok), id, b)
    \/ \E tok \in issued \cup {NoToken}, id \in 1..MaxConsultas :
          DeleteConsultas(Bearer(tok), id)

Spec == Init /\ [][Next]_vars

\* ------------------------------------------------- claims: consultas ---

Booked == {c \in consultas : c.estado # "cancelada"}

NoDoubleBooking ==
    \A c, d \in Booked :
        c # d => ~(c.veterinarioId = d.veterinarioId /\ c.data = d.data /\ c.hora = d.hora)

\* C1: with one request at a time, after any sequence of POST /consultas,
\* PUT /consultas/:id and DELETE /consultas/:id no two stored appointments
\* that are not cancelled have the same (veterinarioId, data, hora).
C1_NoDoubleBooking == NoDoubleBooking

\* Witness of C1: one veterinarian has two appointments, and a POST for
\* one of the two taken slots has just been refused.
C1_Witness ==
    /\ last.op = "POST /consultas"
    /\ last.status = 409
    /\ \E c, d \in Booked :
          /\ c # d /\ c.veterinarioId = d.veterinarioId
          /\ c.veterinarioId = last.req.veterinarioId
          /\ c.data = DataSql(last.req.data) /\ c.hora = HoraSql(last.req.data)

IsDate(d) == d \notin {NoDate, BadDate}

\* The slot is held by an appointment other than exceptId
Occupied(vet, data, hora, exceptId) ==
    \E c \in Booked :
        c.id # exceptId /\ c.veterinarioId = vet /\ c.data = data /\ c.hora = hora

ErrorStatus == {400, 401, 403, 404, 409, 500}

\* A POST that only the conflict check can refuse
PostValid(r, tok) ==
    /\ IsDate(r.data) /\ r.data >= Hoje(now)
    /\ \E an \in animais : an.id = r.animalId /\ an.tutorId = tok.uid
    /\ \E v \in Veterinarios : v.id = r.veterinarioId /\ v.clinicaId = r.clinicaId

\* The values a PUT asks the row o to take
PutTarget(o, r) ==
    [veterinarioId |-> IF r.veterinarioId # Undef THEN r.veterinarioId ELSE o.veterinarioId,
     clinicaId |-> IF r.clinicaId # Undef THEN r.clinicaId ELSE o.clinicaId,
     data |-> IF IsDate(r.data) THEN DataSql(r.data) ELSE o.data,
     hora |-> IF IsDate(r.data) THEN HoraSql(r.data) ELSE o.hora]

\* A PUT by the owner that only the conflict check can refuse
PutValid(o, r, tok) ==
    /\ o.userId = tok.uid
    /\ r.data # BadDate
    /\ IsDate(r.data) => r.data >= Hoje(now)
    /\ \E v \in Veterinarios : /\ v.id = PutTarget(o, r).veterinarioId
                                /\ v.clinicaId = PutTarget(o, r).clinicaId

\* C3: a POST /consultas for a slot held by an appointment, and a PUT
\* /consultas/:id whose target slot is held by a different appointment,
\* leave consultas unchanged and are answered with an error, which is 409
\* when the request passes the checks that come before the conflict check;
\* 409 is answered only when another appointment holds the slot, so the
\* appointment being updated is never a conflict with itself.
C3_ConflictRejected ==
    /\ [][last'.op = "POST /consultas" =>
            LET r == last'.req
                occ == IsDate(r.data) /\
                       Occupied(r.veterinarioId, DataSql(r.data), HoraSql(r.data), 0) IN
            /\ occ => (consultas' = consultas /\ last'.status \in ErrorStatus)
            /\ (occ /\ last'.ran /\ PostValid(r, last'.a.tok)) => last'.status = 409
            /\ last'.status = 409 => (occ /\ consultas' = consultas)
         ]_vars
    /\ [][(last'.op = "PUT /consultas/:id" /\ \E o \in consultas : o.id = last'.req.id) =>
            LET r == last'.req
                o == CHOOSE c \in consultas : c.id = r.id
                t == PutTarget(o, r)
                occ == r.data # BadDate /\
                       Occupied(t.veterinarioId, t.data, t.hora, r.id) IN
            /\ occ => (consultas' = consultas /\ last'.status \in ErrorStatus)
            /\ (occ /\ last'.ran /\ PutValid(o, r, last'.a.tok)) => last'.status = 409
            /\ last'.status = 409 => (occ /\ consultas' = consultas)
         ]_vars

\* Witness of C3: the owner's PUT that moves an appointment onto the slot
\* of another appointment has just been answered 409.
C3_Witness ==
    /\ last.op = "PUT /consultas/:id"
    /\ last.status = 409
    /\ \E o \in consultas :
          /\ o.id = last.req.id
          /\ o.userId = last.a.tok.uid
          /\ Occupied(PutTarget(o, last.req).veterinarioId, PutTarget(o, last.req).data,
                      PutTarget(o, last.req).hora, o.id)

\* --------------------------------------- spec: concurrent POST /consultas ---

\* Requests being handled at the same time.  Each await of pool.query gives
\* the event loop to the other request; only the conflict SELECT and the
\* INSERT read or write table consultas, so the handler is cut between them.
Requests == 1..MaxRequests

IdleRequest ==
    [pc |-> "idle", a |-> Bearer(NoToken),
     b |-> [animalId |-> 0, clinicaId |-> 0, veterinarioId |-> 0, data |-> NoDate],
     status |-> 0, overlap |-> {}]

SameSlot(b1, b2) ==
    /\ b1.veterinarioId = b2.veterinarioId
    /\ DataSql(b1.data) = DataSql(b2.data)
    /\ HoraSql(b1.data) = HoraSql(b2.data)

\* POST /consultas from authenticateToken to the conflict SELECT.  overlap
\* records the requests for the same slot that had run their SELECT and not
\* yet their INSERT when this request's SELECT ran.
PostConsultasSelect(p, a, b) ==
    LET op == "POST /consultas"
        auth == AuthOf(a) IN
    /\ inflight[p].pc = "idle"
    /\ IF ~auth.next
       THEN /\ last' = Rejected(op, a, b)
            /\ inflight' = [inflight EXCEPT ![p] =
                   [pc |-> "done", a |-> a, b |-> b, status |-> AuthOf(a).status,
                    overlap |-> {}]]
       ELSE IF PostConsultasCheck(auth.user, b) # 0
       THEN /\ last' = GuardedResp(op, PostConsultasCheck(auth.user, b), a, b)
            /\ inflight' = [inflight EXCEPT ![p] =
                   [pc |-> "done", a |-> a, b |-> b,
                    status |-> PostConsultasCheck(auth.user, b), overlap |-> {}]]
       ELSE /\ last' = last
            /\ inflight' = [inflight EXCEPT ![p] =
                   [pc |-> "insert", a |-> a, b |-> b, status |-> 0,
                    overlap |-> {q \in Requests \ {p} :
                                   /\ inflight[q].pc = "insert"
                                   /\ SameSlot(inflight[q].b, b)}]]
    /\ UnchangedBut({"inflight"})

\* POST /consultas from the INSERT to the response
PostConsultasInsert(p) ==
    LET op == "POST /consultas"
        r == inflight[p]
        row == NovaConsulta(AuthOf(r.a).user, r.b) IN
    /\ r.pc = "insert"
    /\ IF ~InsertAccepted(row)
       THEN /\ last' = GuardedResp(op, 500, r.a, r.b)
            /\ inflight' = [inflight EXCEPT ![p].pc = "done", ![p].status = 500]
            /\ UnchangedBut({"inflight"})
       ELSE /\ consultas' = consultas \cup {row}
            /\ nextConsultaId' = nextConsultaId + 1
            /\ last' = GuardedResp(op, 201, r.a, r.b)
            /\ inflight' = [inflight EXCEPT ![p].pc = "done", ![p].status = 201]
            /\ UnchangedBut({"inflight", "consultas"})

InitRace ==
    /\ users = {UserA, UserB}
    /\ nextUserId = 3
    /\ animais = {Animal1, Animal2}
    /\ nextAnimalId = 3
    /\ consultas = {}
    /\ nextConsultaId = 1
    /\ invalidated_tokens = {}
    /\ issued = {JwtSign(UserA, 0), JwtSign(UserB, 0)}
    /\ loggedOut = {}
    /\ now = 0
    /\ debugMode = FALSE
    /\ serverPc = "listening"
    /\ nextSweep = CleanupInterval
    /\ inflight = [p \in Requests |-> IdleRequest]
    /\ last = NoLast
    /\ vacinas = {}
    /\ nextVacinaId = 1
    /\ exames = {}
    /\ nextExameId = 1
    /\ receitas = {}
    /\ nextReceitaId = 1
    /\ tables = AllTables
    /\ seeded = TRUE

NextRace ==
    \/ \E p \in Requests, tok \in issued \cup {NoToken}, b \in PostBodies :
          PostConsultasSelect(p, Bearer(tok), b)
    \/ \E p \in Requests : PostConsultasInsert(p)

SpecRace == InitRace /\ [][NextRace]_vars

\* ------------------------------------------- claims: concurrent POST ---

SlotRows(b) ==
    {c \in Booked : /\ c.veterinarioId = b.veterinarioId
                    /\ c.data = DataSql(b.data)
                    /\ c.hora = HoraSql(b.data)}

\* Requests p and q are for the same slot, q ran its conflict SELECT after
\* p's SELECT and before p's INSERT, and both have been answered.
RacedPast(p, q) ==
    /\ p # q
    /\ inflight[p].pc = "done"
    /\ inflight[q].pc = "done"
    /\ p \in inflight[q].overlap

\* C2: when two POST /consultas requests for the same (veterinarioId, data,
\* hora) both run the conflict SELECT before either runs its INSERT, both
\* are answered 201 and two appointments that are not cancelled are stored
\* for that slot.
C2_RaceDuplicates ==
    \A p, q \in Requests :
        RacedPast(p, q) =>
            /\ inflight[p].status = 201
            /\ inflight[q].status = 201
            /\ Cardinality(SlotRows(inflight[q].b)) >= 2

\* Witness of C2: two requests raced past the check and have been answered.
C2_Witness ==
    \E p, q \in Requests :
        /\ RacedPast(p, q)
        /\ inflight[p].status = 201
        /\ inflight[q].status = 201
        /\ ~NoDoubleBooking

\* ------------------------------------------ earlier iteration: routes ---

\* authenticateToken of the earlier iteration: no debug middleware
OldAuthenticateToken(tok, dbFail) ==
    IF tok = NoToken
    THEN [next |-> FALSE, status |-> 401, error |-> "Token de autenticacao necessario",
          user |-> DebugUser]
    ELSE IF dbFail
    THEN [next |-> FALSE, status |-> 500, error |-> "Erro interno do servidor",
          user |-> DebugUser]
    ELSE IF \E r \in invalidated_tokens : r.token = tok
    THEN [next |-> FALSE, status |-> 403, error |-> "Token revogado. Faca login novamente.",
          user |-> DebugUser]
    ELSE IF ~JwtVerify(tok, now)
    THEN [next |-> FALSE, status |-> 403, error |-> "Token invalido ou expirado",
          user |-> DebugUser]
    ELSE [next |-> TRUE, status |-> 0, error |-> "",
          user |-> [id |-> tok.uid, email |-> tok.email, tipo |-> "undefined"]]

OldAuthOf(a) == OldAuthenticateToken(a.tok, a.dbFail)

OldRejected(op, a, req) ==
    [op |-> op, status |-> OldAuthOf(a).status, ran |-> FALSE, a |-> a,
     err |-> OldAuthOf(a).error, req |-> req]

\* POST /usuarios/login
OldPostLogin(email, pin) ==
    LET op == "POST /usuarios/login"
        req == [email |-> email, pin |-> pin, token |-> NoToken] IN
    IF email = NoEmail \/ pin = NoPin
    THEN last' = Resp(op, 400, req) /\ UnchangedBut({})
    ELSE IF UsersByEmail(email) = {} \/ \E u \in UsersByEmail(email) : u.pin = NullPin
    THEN last' = Resp(op, 401, req) /\ UnchangedBut({})
    ELSE LET user == CHOOSE u \in UsersByEmail(email) : TRUE IN
         IF ~BcryptCompare(JsString(pin), user.pin)
         THEN last' = Resp(op, 401, req) /\ UnchangedBut({})
         ELSE /\ Cardinality(issued \cup {JwtSign(user, now)}) <= MaxTokens
              /\ issued' = issued \cup {JwtSign(user, now)}
              /\ last' = Resp(op, 200, [req EXCEPT !.token = JwtSign(user, now)])
              /\ UnchangedBut({"issued"})

\* POST /usuarios/logout
OldPostLogout(a) ==
    LET op == "POST /usuarios/logout"
        req == [token |-> a.tok]
        auth == OldAuthOf(a) IN
    IF ~auth.next
    THEN last' = OldRejected(op, a, req) /\ UnchangedBut({})
    ELSE IF UsersById(auth.user.id) = {}
    THEN \* the insert violates the foreign key user_id -> users(id)
         last' = GuardedResp(op, 500, a, req) /\ UnchangedBut({})
    ELSE /\ invalidated_tokens' = invalidated_tokens \cup
              {[token |-> a.tok, expires_at |-> JwtExp(a.tok), user_id |-> auth.user.id]}
         /\ loggedOut' = loggedOut \cup {a.tok}
         /\ last' = GuardedResp(op, 200, a, req)
         /\ UnchangedBut({"invalidated_tokens", "loggedOut"})

\* DELETE /usuarios/:id, registered without authenticateToken.  The rows of
\* consultas, animais and invalidated_tokens that reference the user are
\* deleted with it (ON DELETE CASCADE).
OldDeleteUsuario(id) ==
    LET op == "DELETE /usuarios/:id"
        req == [id |-> id] IN
    IF UsersById(id) = {}
    THEN last' = Resp(op, 404, req) /\ UnchangedBut({})
    ELSE /\ users' = users \ UsersById(id)
         /\ consultas' = {c \in consultas : c.userId # id}
         /\ animais' = {an \in animais : an.tutorId # id}
         /\ vacinas' = {v \in vacinas : \E an \in animais' : an.id = v.animalId}
         /\ exames' = {e \in exames : \E an \in animais' : an.id = e.animalId}
         /\ receitas' = {r \in receitas : \E an \in animais' : an.id = r.animalId}
         /\ invalidated_tokens' = {r \in invalidated_tokens : r.user_id # id}
         /\ last' = Resp(op, 200, req)
         /\ UNCHANGED <<nextUserId, nextConsultaId, issued, loggedOut, now, debugMode,
                        serverPc, nextSweep, inflight, nextAnimalId, nextVacinaId,
                        nextExameId, nextReceitaId, tables, seeded>>

\* GET /usuarios/:userId/animais, a guarded route that only reads
OldGetAnimais(a, userId) ==
    LET op == "GET /usuarios/:userId/animais"
        req == [userId |-> userId]
        auth == OldAuthOf(a) IN
    IF ~auth.next
    THEN last' = OldRejected(op, a, req) /\ UnchangedBut({})
    ELSE IF userId # auth.user.id /\ auth.user.tipo # "veterinario"
    THEN last' = GuardedResp(op, 403, a, req) /\ UnchangedBut({})
    ELSE last' = GuardedResp(op, 200, a, req) /\ UnchangedBut({})

\* cleanupExpiredTokens of the earlier iteration, run by setInterval
OldTimerCleanup(dbFail) ==
    /\ now = nextSweep
    /\ invalidated_tokens' =
          IF dbFail THEN invalidated_tokens
          ELSE {r \in invalidated_tokens : ~(r.expires_at < now)}
    /\ last' = Resp("cleanupExpiredTokens", IF dbFail THEN 500 ELSE 0,
                    [dbFail |-> dbFail, caller |-> "timer"])
    /\ nextSweep' = nextSweep + CleanupInterval
    /\ serverPc' = serverPc
    /\ UnchangedBut({"server", "invalidated_tokens"})

\* ------------------------------------- specification: earlier iteration ---
\* Login, logout, deletion of users, a guarded route, the sweep and the
\* clock of the earlier iteration, on a database that holds two users.

OldAuthInputs ==
    {[debugQ |-> FALSE, tok |-> t, dbFail |-> f] :
        t \in issued \cup {NoToken, ForgedToken}, f \in BOOLEAN}

InitOld ==
    /\ users = {UserA, UserB}
    /\ nextUserId = 3
    /\ animais = {Animal1, Animal2}
    /\ nextAnimalId = 3
    /\ consultas = {}
    /\ nextConsultaId = 1
    /\ invalidated_tokens = {}
    /\ issued = {}
    /\ loggedOut = {}
    /\ now = 0
    /\ debugMode = FALSE
    /\ serverPc = "listening"
    /\ nextSweep = CleanupInterval
    /\ inflight = <<>>
    /\ last = NoLast
    /\ vacinas = {}
    /\ nextVacinaId = 1
    /\ exames = {}
    /\ nextExameId = 1
    /\ receitas = {}
    /\ nextReceitaId = 1
    /\ tables = AllTables
    /\ seeded = TRUE

NextOld ==
    \/ \E e \in Emails \cup {NoEmail}, pin \in {Pin1, Pin2} : OldPostLogin(e, pin)
    \/ \E a \in OldAuthInputs : OldPostLogout(a)
    \/ \E id \in 1..MaxUsers : OldDeleteUsuario(id)
    \/ \E a \in OldAuthInputs, id \in 1..MaxUsers : OldGetAnimais(a, id)
    \/ \E f \in BOOLEAN : OldTimerCleanup(f)
    \/ Tick

SpecOld == InitOld /\ [][NextOld]_vars

\* ----------------------------------------- claims: earlier iteration ---

\* Routes registered with authenticateToken that the specification runs
OldGuardedOps == {"POST /usuarios/logout", "GET /usuarios/:userId/animais"}

\* C5: in the earlier iteration a token T that POST /usuarios/logout has
\* logged out is not accepted by authenticateToken at any later time before
\* T expires, whatever operations ran in between, DELETE /usuarios/:id of
\* T's owner included; the handler of a guarded route does not run for it.
C5_OldLogoutRevokes ==
    /\ \A T \in loggedOut : now < JwtExp(T) => ~OldAuthenticateToken(T, FALSE).next
    /\ (/\ last.op \in OldGuardedOps
        /\ last.a.tok \in loggedOut
        /\ ~(last.op = "POST /usuarios/logout" /\ last.status = 200))
          => ~last.ran

\* -------------------------------------------------- specification: PIN ---
\* criar-pin, login and alterar-pin, one request at a time, on a database
\* that holds a user with a PIN and a user who has not set one yet.

UserNoPin == [UserB EXCEPT !.pin = NullPin]

PinValues == {Pin1, Pin2, PinNumber1}

InitPin ==
    /\ users = {UserA, UserNoPin}
    /\ nextUserId = 3
    /\ animais = {}
    /\ nextAnimalId = 1
    /\ consultas = {}
    /\ nextConsultaId = 1
    /\ invalidated_tokens = {}
    /\ issued = {}
    /\ loggedOut = {}
    /\ now = 0
    /\ debugMode = FALSE
    /\ serverPc = "listening"
    /\ nextSweep = CleanupInterval
    /\ inflight = <<>>
    /\ last = NoLast
    /\ vacinas = {}
    /\ nextVacinaId = 1
    /\ exames = {}
    /\ nextExameId = 1
    /\ receitas = {}
    /\ nextReceitaId = 1
    /\ tables = AllTables
    /\ seeded = TRUE

NextPin ==
    \/ \E e \in Emails \cup {"c@x"}, p \in PinValues : PostCriarPin(e, p)
    \/ \E e \in Emails \cup {"c@x"}, p \in PinValues : PostLogin(e, p)
    \/ \E tok \in issued \cup {NoToken}, p \in PinValues, q \in PinValues :
          PostAlterarPin(Bearer(tok), p, q)

SpecPin == InitPin /\ [][NextPin]_vars

\* ------------------------------------------------------- claims: PIN ---

\* The user with this email has a PIN and it is the PIN p
PinIs(us, email, p) ==
    \E u \in us : u.email = email /\ u.pin # NullPin /\ u.pin = BcryptHash(JsString(p))

\* C11: login with PIN p returns a token exactly when the user exists, has
\* a PIN and p is the PIN stored last, and otherwise answers 401 and issues
\* no token; the stored PIN changes only by a successful criar-pin or
\* alterar-pin, to the PIN of the request; alterar-pin succeeds only when
\* pinAtual is the stored PIN and novoPin is another PIN, and afterwards
\* the old PIN does not log in and the new one does.
C11_PinRoundTrip ==
    /\ [][last'.op = "POST /utilizadores/login" =>
            IF PinIs(users, last'.req.email, last'.req.pin)
            THEN /\ last'.status = 200
                 /\ last'.req.token # NoToken
                 /\ last'.req.token \in issued'
            ELSE /\ last'.status = 401
                 /\ last'.req.token = NoToken
                 /\ issued' = issued
         ]_vars
    /\ [][\A u \in users, v \in users' : (u.id = v.id /\ u.pin # v.pin) =>
            /\ last'.status = 200
            /\ \/ /\ last'.op = "POST /utilizadores/criar-pin"
                  /\ v.email = last'.req.email
                  /\ v.pin = BcryptHash(JsString(last'.req.pin))
               \/ /\ last'.op = "POST /utilizadores/alterar-pin"
                  /\ v.id = last'.a.tok.uid
                  /\ v.pin = BcryptHash(JsString(last'.req.novoPin))
         ]_vars
    /\ [][(last'.op = "POST /utilizadores/alterar-pin" /\ last'.status = 200) =>
            LET email == last'.a.tok.email
                old == last'.req.pinAtual
                new == last'.req.novoPin IN
            /\ PinIs(users, email, old)
            /\ JsString(new) # JsString(old)
            /\ ~PinIs(users', email, old)
            /\ PinIs(users', email, new)
         ]_vars

\* ----------------------------------------------------- routes: vacinas ---

\* Seed rows of tipos_vacina
TiposVacina == {1, 2}

\* A parameter of a query: undefined is sent as NULL
SqlParam(v) == IF v = Undef THEN Null ELSE v

\* COALESCE($n, column)
Coalesce(v, old) == IF SqlParam(v) = Null THEN old ELSE v

\* A foreign key column accepts NULL or the key of a row of the parent
FkOk(v, keys) == v = Null \/ v \in keys

VeterinarioIds == {v.id : v \in Veterinarios}

AnimaisDe(userId) == {an \in animais : an.tutorId = userId}

\* SELECT v.*, a.tutorId FROM vacinas v JOIN animais a ON v.animalId = a.id
TutorDe(animalId) == (CHOOSE an \in animais : an.id = animalId).tutorId

\* POST /vacinas/agendar
PostVacinasAgendar(a, b) ==
    LET op == "POST /vacinas/agendar"
        auth == AuthOf(a)
        row == [id |-> nextVacinaId, animalId |-> b.animalId,
                tipo_vacina_id |-> b.tipo_vacina_id, data_agendada |-> b.data_agendada,
                dataAplicacao |-> Null, clinicaId |-> SqlParam(b.clinicaId),
                veterinarioId |-> SqlParam(b.veterinarioId), estado |-> "agendada",
                notificado |-> FALSE] IN
    IF ~auth.next
    THEN last' = Rejected(op, a, b) /\ UnchangedBut({})
    ELSE IF ~Truthy(b.animalId) \/ ~Truthy(b.tipo_vacina_id) \/ b.data_agendada = NoDate
    THEN last' = GuardedResp(op, 400, a, b) /\ UnchangedBut({})
    ELSE IF {an \in AnimaisDe(auth.user.id) : an.id = b.animalId} = {}
    THEN last' = GuardedResp(op, 404, a, b) /\ UnchangedBut({})
    ELSE IF b.tipo_vacina_id \notin TiposVacina
    THEN last' = GuardedResp(op, 404, a, b) /\ UnchangedBut({})
    ELSE IF b.data_agendada = BadDate
    THEN last' = GuardedResp(op, 400, a, b) /\ UnchangedBut({})
    ELSE IF b.data_agendada < now
    THEN last' = GuardedResp(op, 400, a, b) /\ UnchangedBut({})
    ELSE IF Truthy(b.clinicaId) /\ b.clinicaId \notin Clinicas
    THEN last' = GuardedResp(op, 404, a, b) /\ UnchangedBut({})
    ELSE IF Truthy(b.veterinarioId) /\ b.veterinarioId \notin VeterinarioIds
    THEN last' = GuardedResp(op, 404, a, b) /\ UnchangedBut({})
    ELSE IF ~FkOk(row.clinicaId, Clinicas) \/ ~FkOk(row.veterinarioId, VeterinarioIds)
    THEN last' = GuardedResp(op, 500, a, b) /\ UnchangedBut({})
    ELSE /\ nextVacinaId <= MaxRows
         /\ vacinas' = vacinas \cup {row}
         /\ nextVacinaId' = nextVacinaId + 1
         /\ last' = GuardedResp(op, 201, a, b)
         /\ UnchangedBut({"vacinas"})

\* PUT /vacinas/:id
PutVacinas(a, id, b) ==
    LET op == "PUT /vacinas/:id"
        req == [id |-> id, tipo_vacina_id |-> b.tipo_vacina_id,
                clinicaId |-> b.clinicaId, veterinarioId |-> b.veterinarioId]
        auth == AuthOf(a)
        found == {v \in vacinas : v.id = id} IN
    IF ~auth.next
    THEN last' = Rejected(op, a, req) /\ UnchangedBut({})
    ELSE IF found = {}
    THEN last' = GuardedResp(op, 404, a, req) /\ UnchangedBut({})
    ELSE LET vacina == CHOOSE v \in found : TRUE
             row == [vacina EXCEPT
                       !.tipo_vacina_id = Coalesce(b.tipo_vacina_id, @),
                       !.clinicaId = Coalesce(b.clinicaId, @),
                       !.veterinarioId = Coalesce(b.veterinarioId, @)] IN
         IF TutorDe(vacina.animalId) # auth.user.id /\ auth.user.tipo # "veterinario"
         THEN last' = GuardedResp(op, 403, a, req) /\ UnchangedBut({})
         ELSE IF \/ ~FkOk(row.tipo_vacina_id, TiposVacina)
                 \/ ~FkOk(row.clinicaId, Clinicas)
                 \/ ~FkOk(row.veterinarioId, VeterinarioIds)
         THEN last' = GuardedResp(op, 500, a, req) /\ UnchangedBut({})
         ELSE /\ vacinas' = (vacinas \ found) \cup {row}
              /\ nextVacinaId' = nextVacinaId
              /\ last' = GuardedResp(op, 200, a, req)
              /\ UnchangedBut({"vacinas"})

\* DELETE /vacinas/:id
DeleteVacinas(a, id) ==
    LET op == "DELETE /vacinas/:id"
        req == [id |-> id]
        auth == AuthOf(a)
        found == {v \in vacinas : v.id = id} IN
    IF ~auth.next
    THEN last' = Rejected(op, a, req) /\ UnchangedBut({})
    ELSE IF found = {}
    THEN last' = GuardedResp(op, 404, a, req) /\ UnchangedBut({})
    ELSE IF \E v \in found : TutorDe(v.animalId) # auth.user.id
    THEN last' = GuardedResp(op, 403, a, req) /\ UnchangedBut({})
    ELSE /\ vacinas' = vacinas \ found
         /\ nextVacinaId' = nextVacinaId
         /\ last' = GuardedResp(op, 200, a, req)
         /\ UnchangedBut({"vacinas"})

\* POST /vacinas/:id/realizada without the test of the stored estado
PostVacinasRealizadaAgain(a, id, b) ==
    LET op == "POST /vacinas/:id/realizada"
        req == [id |-> id, dataAplicacao |-> b.dataAplicacao,
                veterinarioId |-> b.veterinarioId]
        auth == AuthOf(a)
        found == {v \in vacinas : v.id = id} IN
    IF ~auth.next
    THEN last' = Rejected(op, a, req) /\ UnchangedBut({})
    ELSE IF found = {}
    THEN last' = GuardedResp(op, 404, a, req) /\ UnchangedBut({})
    ELSE LET vacina == CHOOSE v \in found : TRUE
             row == [vacina EXCEPT
                       !.estado = "realizada",
                       !.dataAplicacao = IF b.dataAplicacao = NoDate
                                         THEN DataSql(Hoje(now) + TzOffset)
                                         ELSE DataSql(b.dataAplicacao),
                       !.veterinarioId = Coalesce(b.veterinarioId, @)] IN
         IF TutorDe(vacina.animalId) # auth.user.id
         THEN last' = GuardedResp(op, 403, a, req) /\ UnchangedBut({})
         ELSE IF b.dataAplicacao = BadDate
         THEN last' = GuardedResp(op, 400, a, req) /\ UnchangedBut({})
         ELSE IF Truthy(b.veterinarioId) /\ b.veterinarioId \notin VeterinarioIds
         THEN last' = GuardedResp(op, 404, a, req) /\ UnchangedBut({})
         ELSE IF ~FkOk(row.veterinarioId, VeterinarioIds)
         THEN last' = GuardedResp(op, 500, a, req) /\ UnchangedBut({})
         ELSE /\ vacinas' = (vacinas \ found) \cup {row}
              /\ nextVacinaId' = nextVacinaId
              /\ last' = GuardedResp(op, 200, a, req)
              /\ UnchangedBut({"vacinas"})

\* POST /vacinas/:id/realizada
PostVacinasRealizada(a, id, b) ==
    LET op == "POST /vacinas/:id/realizada"
        req == [id |-> id, dataAplicacao |-> b.dataAplicacao,
                veterinarioId |-> b.veterinarioId]
        auth == AuthOf(a)
        found == {v \in vacinas : v.id = id} IN
    IF ~auth.next
    THEN last' = Rejected(op, a, req) /\ UnchangedBut({})
    ELSE IF found = {}
    THEN last' = GuardedResp(op, 404, a, req) /\ UnchangedBut({})
    ELSE LET vacina == CHOOSE v \in found : TRUE
             row == [vacina EXCEPT
                       !.estado = "realizada",
                       !.dataAplicacao = IF b.dataAplicacao = NoDate
                                         THEN DataSql(Hoje(now) + TzOffset)
                                         ELSE DataSql(b.dataAplicacao),
                       !.veterinarioId = Coalesce(b.veterinarioId, @)] IN
         IF TutorDe(vacina.animalId) # auth.user.id
         THEN last' = GuardedResp(op, 403, a, req) /\ UnchangedBut({})
         ELSE IF vacina.estado = "realizada"
         THEN last' = GuardedResp(op, 400, a, req) /\ UnchangedBut({})
         ELSE IF b.dataAplicacao = BadDate
         THEN last' = GuardedResp(op, 400, a, req) /\ UnchangedBut({})
         ELSE IF Truthy(b.veterinarioId) /\ b.veterinarioId \notin VeterinarioIds
         THEN last' = GuardedResp(op, 404, a, req) /\ UnchangedBut({})
         ELSE IF ~FkOk(row.veterinarioId, VeterinarioIds)
         THEN last' = GuardedResp(op, 500, a, req) /\ UnchangedBut({})
         ELSE /\ vacinas' = (vacinas \ found) \cup {row}
              /\ nextVacinaId' = nextVacinaId
              /\ last' = GuardedResp(op, 200, a, req)
              /\ UnchangedBut({"vacinas"})

\* GET /vacinas: the vaccines of the caller's animals
GetVacinas(a) ==
    LET op == "GET /vacinas"
        auth == AuthOf(a)
        rows == {v \in vacinas : TutorDe(v.animalId) = auth.user.id} IN
    IF ~auth.next
    THEN last' = Rejected(op, a, [rows |-> {}]) /\ UnchangedBut({})
    ELSE last' = GuardedResp(op, 200, a, [rows |-> rows]) /\ UnchangedBut({})

DaysAhead == 7

\* GET /vacinas/proximas that marks every scheduled vaccine of the window,
\* of any tutor
GetVacinasProximasAll(a) ==
    LET op == "GET /vacinas/proximas"
        auth == AuthOf(a)
        rows == {v \in vacinas :
                    /\ TutorDe(v.animalId) = auth.user.id
                    /\ v.estado = "agendada"
                    /\ now <= v.data_agendada
                    /\ v.data_agendada <= now + DaysAhead * HoursPerDay} IN
    IF ~auth.next
    THEN last' = Rejected(op, a, [rows |-> {}]) /\ UnchangedBut({})
    ELSE /\ vacinas' = {IF v.estado = "agendada" THEN [v EXCEPT !.notificado = TRUE]
                          ELSE v : v \in vacinas}
         /\ nextVacinaId' = nextVacinaId
         /\ last' = GuardedResp(op, 200, a, [rows |-> rows])
         /\ UnchangedBut({"vacinas"})

\* GET /vacinas/proximas: the caller's vaccines of the next seven days; the
\* rows returned are marked as notified.
GetVacinasProximas(a) ==
    LET op == "GET /vacinas/proximas"
        auth == AuthOf(a)
        rows == {v \in vacinas :
                    /\ TutorDe(v.animalId) = auth.user.id
                    /\ v.estado = "agendada"
                    /\ now <= v.data_agendada
                    /\ v.data_agendada <= now + DaysAhead * HoursPerDay} IN
    IF ~auth.next
    THEN last' = Rejected(op, a, [rows |-> {}]) /\ UnchangedBut({})
    ELSE /\ vacinas' = {IF v \in rows THEN [v EXCEPT !.notificado = TRUE] ELSE v :
                          v \in vacinas}
         /\ nextVacinaId' = nextVacinaId
         /\ last' = GuardedResp(op, 200, a, [rows |-> rows])
         /\ UnchangedBut({"vacinas"})

\* GET /animais/:animalId/vacinas/agendadas
GetVacinasAgendadas(a, animalId) ==
    LET op == "GET /animais/:animalId/vacinas/agendadas"
        auth == AuthOf(a)
        rows == {v \in vacinas : v.animalId = animalId /\ v.estado = "agendada"} IN
    IF ~auth.next
    THEN last' = Rejected(op, a, [animalId |-> animalId, rows |-> {}]) /\ UnchangedBut({})
    ELSE IF {an \in AnimaisDe(auth.user.id) : an.id = animalId} = {}
    THEN last' = GuardedResp(op, 404, a, [animalId |-> animalId, rows |-> {}])
         /\ UnchangedBut({})
    ELSE last' = GuardedResp(op, 200, a, [animalId |-> animalId, rows |-> rows])
         /\ UnchangedBut({})

\* ------------------------------------------- specification: past dates ---
\* The routes that refuse a date in the past, one request at a time, with
\* the clock; the requested instants are taken around the current hour.

DatesAround(t) == {t - HoursPerDay - 1, t - 1, t + HoursPerDay}

\* Rows inserted so far in the tables of appointments and documents
RowsCreated ==
    (nextConsultaId - 1) + (nextVacinaId - 1) + (nextExameId - 1) + (nextReceitaId - 1)

NextDates ==
    \/ \E tok \in issued, d \in DatesAround(now) :
          /\ RowsCreated < MaxRows
          /\ PostConsultas(Bearer(tok), [animalId |-> 1, clinicaId |-> 1,
                                         veterinarioId |-> 1, data |-> d])
    \/ \E tok \in issued, id \in 1..MaxConsultas, d \in DatesAround(now) :
          PutConsultas(Bearer(tok), id, [data |-> d, clinicaId |-> Undef,
                                         veterinarioId |-> Undef])
    \/ \E tok \in issued, d \in DatesAround(now) :
          /\ RowsCreated < MaxRows
          /\ PostVacinasAgendar(Bearer(tok),
                 [animalId |-> 1, tipo_vacina_id |-> 1, data_agendada |-> d,
                  clinicaId |-> Undef, veterinarioId |-> Undef])
    \/ TimerCleanup(FALSE)
    \/ Tick

SpecDates == Init /\ [][NextDates]_vars

\* ------------------------------------------------ claims: past dates ---

\* C12: a POST /consultas or PUT /consultas/:id whose date-time, and a POST
\* /vacinas/agendar whose data_agendada, is earlier than the time of the
\* request stores nothing and is answered with an error, which is 400 when
\* the request passes authentication, ownership and existence checks.
C12_PastDateRejected ==
    /\ [][(/\ last'.op \in {"POST /consultas", "PUT /consultas/:id"}
           /\ IsDate(last'.req.data)
           /\ last'.req.data < now) =>
            /\ consultas' = consultas
            /\ last'.status \in {400, 401, 403, 404}
            /\ (last'.ran /\ last'.status \notin {403, 404}) => last'.status = 400
         ]_vars
    /\ [][(/\ last'.op = "POST /vacinas/agendar"
           /\ IsDate(last'.req.data_agendada)
           /\ last'.req.data_agendada < now) =>
            /\ vacinas' = vacinas
            /\ last'.status \in {400, 401, 403, 404}
            /\ (last'.ran /\ last'.status \notin {403, 404}) => last'.status = 400
         ]_vars

\* ----------------------------------------------------- routes: animais ---

NoNome == ""
Nomes == {"Rex", "Bobi"}

\* POST /animais.  The row's tutorId references users.
PostAnimais(a, nome) ==
    LET op == "POST /animais"
        req == [nome |-> nome]
        auth == AuthOf(a) IN
    IF ~auth.next
    THEN last' = Rejected(op, a, req) /\ UnchangedBut({})
    ELSE IF nome = NoNome
    THEN last' = GuardedResp(op, 400, a, req) /\ UnchangedBut({})
    ELSE IF UsersById(auth.user.id) = {}
    THEN last' = GuardedResp(op, 500, a, req) /\ UnchangedBut({})
    ELSE /\ nextAnimalId <= MaxRows + 1
         /\ animais' = animais \cup
               {[id |-> nextAnimalId, tutorId |-> auth.user.id, nome |-> nome]}
         /\ nextAnimalId' = nextAnimalId + 1
         /\ last' = GuardedResp(op, 201, a, req)
         /\ UnchangedBut({"animais"})

\* GET /utilizadores/:userId/animais
GetUtilizadoresAnimais(a, userId) ==
    LET op == "GET /utilizadores/:userId/animais"
        auth == AuthOf(a) IN
    IF ~auth.next
    THEN last' = Rejected(op, a, [userId |-> userId, rows |-> {}]) /\ UnchangedBut({})
    ELSE IF userId # auth.user.id /\ auth.user.tipo # "veterinario"
    THEN last' = GuardedResp(op, 403, a, [userId |-> userId, rows |-> {}])
         /\ UnchangedBut({})
    ELSE last' = GuardedResp(op, 200, a, [userId |-> userId, rows |-> AnimaisDe(userId)])
         /\ UnchangedBut({})

\* GET /animais/:animalId
GetAnimais(a, animalId) ==
    LET op == "GET /animais/:animalId"
        auth == AuthOf(a)
        found == {an \in animais : an.id = animalId} IN
    IF ~auth.next
    THEN last' = Rejected(op, a, [animalId |-> animalId, rows |-> {}]) /\ UnchangedBut({})
    ELSE IF found = {}
    THEN last' = GuardedResp(op, 404, a, [animalId |-> animalId, rows |-> {}])
         /\ UnchangedBut({})
    ELSE IF TutorDe(animalId) # auth.user.id /\ auth.user.tipo # "veterinario"
    THEN last' = GuardedResp(op, 403, a, [animalId |-> animalId, rows |-> {}])
         /\ UnchangedBut({})
    ELSE last' = GuardedResp(op, 200, a, [animalId |-> animalId, rows |-> found])
         /\ UnchangedBut({})

\* PUT /animais/:id with the UPDATE moved in front of the ownership check
PutAnimaisWriteFirst(a, id, nome) ==
    LET op == "PUT /animais/:id"
        req == [id |-> id, nome |-> nome]
        auth == AuthOf(a)
        found == {an \in animais : an.id = id} IN
    IF ~auth.next
    THEN last' = Rejected(op, a, req) /\ UnchangedBut({})
    ELSE IF nome = NoNome
    THEN last' = GuardedResp(op, 400, a, req) /\ UnchangedBut({})
    ELSE IF found = {}
    THEN last' = GuardedResp(op, 404, a, req) /\ UnchangedBut({})
    ELSE /\ animais' = {IF an.id = id THEN [an EXCEPT !.nome = nome] ELSE an :
                          an \in animais}
         /\ nextAnimalId' = nextAnimalId
         /\ last' = GuardedResp(op, IF TutorDe(id) # auth.user.id THEN 403 ELSE 200, a, req)
         /\ UnchangedBut({"animais"})

\* PUT /animais/:id
PutAnimais(a, id, nome) ==
    LET op == "PUT /animais/:id"
        req == [id |-> id, nome |-> nome]
        auth == AuthOf(a)
        found == {an \in animais : an.id = id} IN
    IF ~auth.next
    THEN last' = Rejected(op, a, req) /\ UnchangedBut({})
    ELSE IF nome = NoNome
    THEN last' = GuardedResp(op, 400, a, req) /\ UnchangedBut({})
    ELSE IF found = {}
    THEN last' = GuardedResp(op, 404, a, req) /\ UnchangedBut({})
    ELSE IF TutorDe(id) # auth.user.id
    THEN last' = GuardedResp(op, 403, a, req) /\ UnchangedBut({})
    ELSE /\ animais' = {IF an.id = id THEN [an EXCEPT !.nome = nome] ELSE an :
                          an \in animais}
         /\ nextAnimalId' = nextAnimalId
         /\ last' = GuardedResp(op, 200, a, req)
         /\ UnchangedBut({"animais"})

\* POST /animais/:animalId/foto.  file says that the request carries an
\* image; fotoUrl is not part of the modelled row, so the UPDATE leaves the
\* modelled table as it is.
PostAnimaisFoto(a, animalId, file) ==
    LET op == "POST /animais/:animalId/foto"
        req == [animalId |-> animalId, file |-> file]
        auth == AuthOf(a)
        found == {an \in animais : an.id = animalId} IN
    IF ~auth.next
    THEN last' = Rejected(op, a, req) /\ UnchangedBut({})
    ELSE IF ~file
    THEN last' = GuardedResp(op, 400, a, req) /\ UnchangedBut({})
    ELSE IF found = {}
    THEN last' = GuardedResp(op, 404, a, req) /\ UnchangedBut({})
    ELSE IF TutorDe(animalId) # auth.user.id /\ auth.user.tipo # "veterinario"
    THEN last' = GuardedResp(op, 403, a, req) /\ UnchangedBut({})
    ELSE last' = GuardedResp(op, 200, a, req) /\ UnchangedBut({})

\* GET /consultas/user/:userId
GetConsultasUser(a, userId) ==
    LET op == "GET /consultas/user/:userId"
        auth == AuthOf(a) IN
    IF ~auth.next
    THEN last' = Rejected(op, a, [userId |-> userId, rows |-> {}]) /\ UnchangedBut({})
    ELSE IF userId # auth.user.id /\ auth.user.tipo # "veterinario"
    THEN last' = GuardedResp(op, 403, a, [userId |-> userId, rows |-> {}])
         /\ UnchangedBut({})
    ELSE last' = GuardedResp(op, 200, a,
                     [userId |-> userId, rows |-> {c \in consultas : c.userId = userId}])
         /\ UnchangedBut({})

\* ------------------------------------------------------ routes: exames ---

\* Seed rows of tipos_exame
TiposExame == {1, 2}

\* Columns of table exames
ExamesColumns ==
    {"id", "animalId", "tipo_exame_id", "dataExame", "clinicaId", "veterinarioId",
     "resultado", "observacoes", "dataRegisto"}

\* The column that the photo upload, the list and the delete of exams name
FotoUrlColumn == "fotoUrl"

\* POST /exames.  dataExame is not validated by the handler: the INSERT
\* rejects a value that is not a date.
PostExames(a, b) ==
    LET op == "POST /exames"
        auth == AuthOf(a)
        row == [id |-> nextExameId, animalId |-> b.animalId,
                tipo_exame_id |-> b.tipo_exame_id, dataExame |-> b.dataExame,
                clinicaId |-> b.clinicaId, veterinarioId |-> b.veterinarioId] IN
    IF ~auth.next
    THEN last' = Rejected(op, a, b) /\ UnchangedBut({})
    ELSE IF \/ ~Truthy(b.animalId) \/ ~Truthy(b.tipo_exame_id) \/ b.dataExame = NoDate
            \/ ~Truthy(b.clinicaId) \/ ~Truthy(b.veterinarioId)
    THEN last' = GuardedResp(op, 400, a, b) /\ UnchangedBut({})
    ELSE IF {an \in AnimaisDe(auth.user.id) : an.id = b.animalId} = {}
    THEN last' = GuardedResp(op, 403, a, b) /\ UnchangedBut({})
    ELSE IF b.tipo_exame_id \notin TiposExame
    THEN last' = GuardedResp(op, 400, a, b) /\ UnchangedBut({})
    ELSE IF b.clinicaId \notin Clinicas
    THEN last' = GuardedResp(op, 400, a, b) /\ UnchangedBut({})
    ELSE IF VeterinarioCheck(b.veterinarioId, b.clinicaId) = {}
    THEN last' = GuardedResp(op, 400, a, b) /\ UnchangedBut({})
    ELSE IF b.dataExame = BadDate
    THEN last' = GuardedResp(op, 500, a, b) /\ UnchangedBut({})
    ELSE /\ nextExameId <= MaxRows
         /\ exames' = exames \cup {row}
         /\ nextExameId' = nextExameId + 1
         /\ last' = GuardedResp(op, 201, a, b)
         /\ UnchangedBut({"exames"})

\* POST /exames/:id/foto
PostExamesFoto(a, id, file) ==
    LET op == "POST /exames/:id/foto"
        req == [id |-> id, file |-> file]
        auth == AuthOf(a)
        found == {e \in exames : e.id = id} IN
    IF ~auth.next
    THEN last' = Rejected(op, a, req) /\ UnchangedBut({})
    ELSE IF ~file
    THEN last' = GuardedResp(op, 400, a, req) /\ UnchangedBut({})
    ELSE IF found = {}
    THEN last' = GuardedResp(op, 404, a, req) /\ UnchangedBut({})
    ELSE IF \E e \in found : TutorDe(e.animalId) # auth.user.id
    THEN last' = GuardedResp(op, 403, a, req) /\ UnchangedBut({})
    ELSE IF FotoUrlColumn \notin ExamesColumns
    THEN last' = GuardedResp(op, 500, a, req) /\ UnchangedBut({})
    ELSE last' = GuardedResp(op, 200, a, req) /\ UnchangedBut({})

\* PUT /exames/:id
PutExames(a, id, b) ==
    LET op == "PUT /exames/:id"
        req == [id |-> id, tipo_exame_id |-> b.tipo_exame_id, dataExame |-> b.dataExame,
                clinicaId |-> b.clinicaId, veterinarioId |-> b.veterinarioId]
        auth == AuthOf(a)
        found == {e \in exames : e.id = id} IN
    IF ~auth.next
    THEN last' = Rejected(op, a, req) /\ UnchangedBut({})
    ELSE IF b.dataExame = NoDate
    THEN last' = GuardedResp(op, 400, a, req) /\ UnchangedBut({})
    ELSE IF found = {}
    THEN last' = GuardedResp(op, 404, a, req) /\ UnchangedBut({})
    ELSE LET exame == CHOOSE e \in found : TRUE
             clinicaIdToCheck == IF Truthy(b.clinicaId) THEN b.clinicaId
                                 ELSE exame.clinicaId
             row == [exame EXCEPT
                       !.dataExame = b.dataExame,
                       !.clinicaId = Coalesce(b.clinicaId, @),
                       !.veterinarioId = Coalesce(b.veterinarioId, @),
                       !.tipo_exame_id = Coalesce(b.tipo_exame_id, @)] IN
         IF TutorDe(exame.animalId) # auth.user.id
         THEN last' = GuardedResp(op, 403, a, req) /\ UnchangedBut({})
         ELSE IF Truthy(b.tipo_exame_id) /\ b.tipo_exame_id \notin TiposExame
         THEN last' = GuardedResp(op, 400, a, req) /\ UnchangedBut({})
         ELSE IF Truthy(b.clinicaId) /\ b.clinicaId \notin Clinicas
         THEN last' = GuardedResp(op, 400, a, req) /\ UnchangedBut({})
         ELSE IF /\ Truthy(b.veterinarioId)
                 /\ VeterinarioCheck(b.veterinarioId, clinicaIdToCheck) = {}
         THEN last' = GuardedResp(op, 400, a, req) /\ UnchangedBut({})
         ELSE IF b.dataExame = BadDate
         THEN last' = GuardedResp(op, 400, a, req) /\ UnchangedBut({})
         ELSE IF \/ ~FkOk(row.tipo_exame_id, TiposExame)
                 \/ ~FkOk(row.clinicaId, Clinicas)
                 \/ ~FkOk(row.veterinarioId, VeterinarioIds)
         THEN last' = GuardedResp(op, 500, a, req) /\ UnchangedBut({})
         ELSE /\ exames' = (exames \ found) \cup {row}
              /\ nextExameId' = nextExameId
              /\ last' = GuardedResp(op, 200, a, req)
              /\ UnchangedBut({"exames"})

\* GET /animais/:animalId/exames
GetAnimaisExames(a, animalId) ==
    LET op == "GET /animais/:animalId/exames"
        auth == AuthOf(a)
        rows == {e \in exames : e.animalId = animalId} IN
    IF ~auth.next
    THEN last' = Rejected(op, a, [animalId |-> animalId, rows |-> {}]) /\ UnchangedBut({})
    ELSE IF {an \in AnimaisDe(auth.user.id) : an.id = animalId} = {}
    THEN last' = GuardedResp(op, 403, a, [animalId |-> animalId, rows |-> {}])
         /\ UnchangedBut({})
    ELSE IF FotoUrlColumn \notin ExamesColumns
    THEN last' = GuardedResp(op, 500, a, [animalId |-> animalId, rows |-> {}])
         /\ UnchangedBut({})
    ELSE last' = GuardedResp(op, 200, a, [animalId |-> animalId, rows |-> rows])
         /\ UnchangedBut({})

\* DELETE /exames/:id.  The first query selects e.fotoUrl.
DeleteExames(a, id) ==
    LET op == "DELETE /exames/:id"
        req == [id |-> id]
        auth == AuthOf(a)
        found == {e \in exames : e.id = id} IN
    IF ~auth.next
    THEN last' = Rejected(op, a, req) /\ UnchangedBut({})
    ELSE IF FotoUrlColumn \notin ExamesColumns
    THEN last' = GuardedResp(op, 500, a, req) /\ UnchangedBut({})
    ELSE IF found = {}
    THEN last' = GuardedResp(op, 404, a, req) /\ UnchangedBut({})
    ELSE IF \E e \in found : TutorDe(e.animalId) # auth.user.id
    THEN last' = GuardedResp(op, 403, a, req) /\ UnchangedBut({})
    ELSE /\ exames' = exames \ found
         /\ nextExameId' = nextExameId
         /\ last' = GuardedResp(op, 200, a, req)
         /\ UnchangedBut({"exames"})


\* ------------------------------------------- routes: reads and lists ---

\* GET /utilizadores/:id
GetUtilizador(a, id) ==
    LET op == "GET /utilizadores/:id"
        auth == AuthOf(a) IN
    IF ~auth.next
    THEN last' = Rejected(op, a, [userId |-> id, rows |-> {}]) /\ UnchangedBut({})
    ELSE IF id # auth.user.id /\ auth.user.tipo # "veterinario"
    THEN last' = GuardedResp(op, 403, a, [userId |-> id, rows |-> {}]) /\ UnchangedBut({})
    ELSE IF UsersById(id) = {}
    THEN last' = GuardedResp(op, 404, a, [userId |-> id, rows |-> {}]) /\ UnchangedBut({})
    ELSE last' = GuardedResp(op, 200, a, [userId |-> id, rows |-> UsersById(id)])
         /\ UnchangedBut({})

\* The routes without authenticateToken that only SELECT from the seeded
\* tables: GET /clinicas, /veterinarios, /clinicas/:clinicaId/veterinarios,
\* /vacinas/tipos, /exames/tipos and /
PublicGets ==
    {"GET /clinicas", "GET /veterinarios", "GET /clinicas/:clinicaId/veterinarios",
     "GET /vacinas/tipos", "GET /exames/tipos", "GET /"}

GetPublic(op) ==
    /\ op \in PublicGets
    /\ last' = Resp(op, 200, [rows |-> {}])
    /\ UnchangedBut({})

\* ----------------------------------------------- specification: routes ---
\* Every route of the current iteration, one request at a time, debug
\* mode off.  Two tutors with one animal each hold a token.  The bodies
\* are, for each check of a handler, one that fails it and one that passes.

RoutesConsultaBodies ==
    {[animalId |-> an, clinicaId |-> 1, veterinarioId |-> 1, data |-> 0] : an \in {1, 2}}
    \cup {[animalId |-> 1, clinicaId |-> 2, veterinarioId |-> 1, data |-> 0],
          [animalId |-> 2, clinicaId |-> 1, veterinarioId |-> 1, data |-> NoDate]}

RoutesPutConsultaBodies ==
    {[data |-> NoDate, clinicaId |-> Undef, veterinarioId |-> 3],
     [data |-> BadDate, clinicaId |-> Undef, veterinarioId |-> Undef],
     [data |-> 0, clinicaId |-> Undef, veterinarioId |-> Undef]}

RoutesVacinaBodies ==
    {[animalId |-> an, tipo_vacina_id |-> 1, data_agendada |-> HoursPerDay,
      clinicaId |-> Undef, veterinarioId |-> Undef] : an \in {1, 2}}
    \cup {[animalId |-> 1, tipo_vacina_id |-> 1, data_agendada |-> d,
           clinicaId |-> Undef, veterinarioId |-> Undef] : d \in {NoDate, -1}}

RoutesPutVacinaBodies ==
    {[tipo_vacina_id |-> Undef, clinicaId |-> 1, veterinarioId |-> Undef],
     [tipo_vacina_id |-> 3, clinicaId |-> Undef, veterinarioId |-> Undef]}

RoutesRealizadaBodies ==
    {[dataAplicacao |-> d, veterinarioId |-> Undef] : d \in {NoDate, BadDate}}

RoutesExameBodies ==
    {[animalId |-> an, tipo_exame_id |-> 1, dataExame |-> 0, clinicaId |-> 1,
      veterinarioId |-> 1] : an \in {1, 2}}
    \cup {[animalId |-> 1, tipo_exame_id |-> 1, dataExame |-> 0, clinicaId |-> 2,
           veterinarioId |-> 1],
          [animalId |-> 2, tipo_exame_id |-> Undef, dataExame |-> 0, clinicaId |-> 1,
           veterinarioId |-> 1]}

RoutesPutExameBodies ==
    {[tipo_exame_id |-> Undef, dataExame |-> d, clinicaId |-> Undef,
      veterinarioId |-> Undef] : d \in {NoDate, 0}}
    \cup {[tipo_exame_id |-> Undef, dataExame |-> 0, clinicaId |-> 1, veterinarioId |-> 3],
          [tipo_exame_id |-> Undef, dataExame |-> 0, clinicaId |-> 2, veterinarioId |-> Undef]}

RoutesTokens == issued \cup {NoToken}

\* The exploration follows a behaviour through one family of routes: once
\* a request has changed the rows of one family, the requests that follow
\* are to the routes of that family.
Touched ==
    [accounts |-> users # {UserA, UserB} \/ invalidated_tokens # {},
     animais |-> animais # {Animal1, Animal2},
     consultas |-> nextConsultaId # 1,
     vacinas |-> nextVacinaId # 1,
     exames |-> nextExameId # 1]

Focus(f) == \A g \in DOMAIN Touched \ {f} : ~Touched[g]

NextAccounts ==
    \/ \E e \in Emails \cup {NoEmail}, t \in GoodPhones \cup {BadPhone} :
          PostUtilizadores(e, t, "tutor", "111111")
    \/ \E e \in Emails, c \in Codes : PostVerificar(e, c)
    \/ \E e \in Emails \cup {"c@x"}, p \in {Pin1, PinShort} : PostCriarPin(e, p)
    \/ \E e \in Emails \cup {"c@x"}, p \in {Pin1, Pin2, NoPin} : PostLogin(e, p)
    \/ \E tok \in RoutesTokens, id \in 1..MaxUsers, b \in PutBodies :
          PutUtilizadores(Bearer(tok), id, b[1], b[2], b[1] = NoEmail)
    \/ \E tok \in RoutesTokens, p \in {Pin1, Pin2}, q \in {Pin1, PinShort} :
          PostAlterarPin(Bearer(tok), p, q)
    \/ \E tok \in RoutesTokens : PostLogout(Bearer(tok))
    \/ \E tok \in RoutesTokens : GetUtilizadores(Bearer(tok))
    \/ \E tok \in RoutesTokens, id \in 1..(MaxUsers + 1) : GetUtilizador(Bearer(tok), id)
    \/ \E op \in PublicGets : GetPublic(op)

\* A behaviour of the exploration creates at most MaxCreated rows
RoutesCreated == RowsCreated + (nextAnimalId - 3)

RoutesBudget == RoutesCreated' <= MaxCreated

NextAnimais ==
    \/ \E tok \in RoutesTokens, n \in {NoNome, "Rex"} :
          PostAnimais(Bearer(tok), n) /\ RoutesBudget
    \/ \E tok \in RoutesTokens, id \in 1..MaxUsers : GetUtilizadoresAnimais(Bearer(tok), id)
    \/ \E tok \in RoutesTokens, id \in 1..3 : GetAnimais(Bearer(tok), id)
    \/ \E tok \in RoutesTokens, id \in 1..3, n \in {NoNome, "Max"} :
          PutAnimais(Bearer(tok), id, n)
    \/ \E tok \in RoutesTokens, id \in 1..3, f \in BOOLEAN :
          PostAnimaisFoto(Bearer(tok), id, f)

NextConsultas ==
    \/ \E tok \in RoutesTokens, b \in RoutesConsultaBodies :
          PostConsultas(Bearer(tok), b) /\ RoutesBudget
    \/ \E tok \in RoutesTokens, id \in 1..MaxConsultas, b \in RoutesPutConsultaBodies :
          PutConsultas(Bearer(tok), id, b)
    \/ \E tok \in RoutesTokens, id \in 1..MaxConsultas : DeleteConsultas(Bearer(tok), id)
    \/ \E tok \in RoutesTokens, id \in 1..MaxUsers : GetConsultasUser(Bearer(tok), id)

NextVacinas ==
    \/ \E tok \in RoutesTokens, b \in RoutesVacinaBodies :
          PostVacinasAgendar(Bearer(tok), b) /\ RoutesBudget
    \/ \E tok \in RoutesTokens, id \in 1..MaxRows, b \in RoutesPutVacinaBodies :
          PutVacinas(Bearer(tok), id, b)
    \/ \E tok \in RoutesTokens, id \in 1..MaxRows : DeleteVacinas(Bearer(tok), id)
    \/ \E tok \in RoutesTokens, id \in 1..MaxRows, b \in RoutesRealizadaBodies :
          PostVacinasRealizada(Bearer(tok), id, b)
    \/ \E tok \in RoutesTokens : GetVacinas(Bearer(tok))
    \/ \E tok \in RoutesTokens : GetVacinasProximas(Bearer(tok))
    \/ \E tok \in RoutesTokens, id \in 1..3 : GetVacinasAgendadas(Bearer(tok), id)

NextExames ==
    \/ \E tok \in RoutesTokens, b \in RoutesExameBodies :
          PostExames(Bearer(tok), b) /\ RoutesBudget
    \/ \E tok \in RoutesTokens, id \in 1..MaxRows, f \in BOOLEAN :
          PostExamesFoto(Bearer(tok), id, f)
    \/ \E tok \in RoutesTokens, id \in 1..MaxRows, b \in RoutesPutExameBodies :
          PutExames(Bearer(tok), id, b)
    \/ \E tok \in RoutesTokens, id \in 1..3 : GetAnimaisExames(Bearer(tok), id)
    \/ \E tok \in RoutesTokens, id \in 1..MaxRows : DeleteExames(Bearer(tok), id)

NextRoutes ==
    \/ Focus("accounts") /\ NextAccounts
    \/ Focus("animais") /\ NextAnimais
    \/ Focus("consultas") /\ NextConsultas
    \/ Focus("vacinas") /\ NextVacinas
    \/ Focus("exames") /\ NextExames

SpecRoutes == Init /\ [][NextRoutes]_vars

\* ----------------------------------------------------- claims: routes ---

\* The tables of the database
Database ==
    <<users, nextUserId, animais, nextAnimalId, consultas, nextConsultaId, vacinas,
      nextVacinaId, exames, nextExameId, receitas, nextReceitaId, invalidated_tokens>>

\* Routes that name an animal, a tutor, an appointment, a vaccine, an exam
AnimalIdOps ==
    {"GET /animais/:animalId", "POST /animais/:animalId/foto", "POST /consultas",
     "POST /vacinas/agendar", "POST /exames", "GET /animais/:animalId/vacinas/agendadas",
     "GET /animais/:animalId/exames"}

UserIdOps == {"GET /utilizadores/:userId/animais", "GET /consultas/user/:userId"}

ConsultaIdOps == {"PUT /consultas/:id", "DELETE /consultas/:id"}

VacinaIdOps == {"PUT /vacinas/:id", "DELETE /vacinas/:id", "POST /vacinas/:id/realizada"}

ExameIdOps == {"PUT /exames/:id", "POST /exames/:id/foto", "DELETE /exames/:id"}

\* The request l, made with the token of tutor v, names a row of another tutor
CrossTutor(l, v) ==
    \/ l.op \in AnimalIdOps
         /\ \E an \in animais : an.id = l.req.animalId /\ an.tutorId # v
    \/ l.op = "PUT /animais/:id"
         /\ \E an \in animais : an.id = l.req.id /\ an.tutorId # v
    \/ l.op \in UserIdOps /\ l.req.userId # v /\ UsersById(l.req.userId) # {}
    \/ l.op \in ConsultaIdOps
         /\ \E c \in consultas : c.id = l.req.id /\ c.userId # v
    \/ l.op \in VacinaIdOps
         /\ \E x \in vacinas : x.id = l.req.id /\ TutorDe(x.animalId) # v
    \/ l.op \in ExameIdOps
         /\ \E e \in exames : e.id = l.req.id /\ TutorDe(e.animalId) # v

\* C13: with debug mode off, a request made with the token of tutor V that
\* names an animal, appointment, vaccine or exam of another tutor U leaves
\* the database as it is, returns no row, and is answered 403 or 404 (400
\* when the handler refuses the body before it looks at the owner); the
\* vaccine lists return rows of V's animals only.
C13_CrossTutorIsolation ==
    [][/\ (last'.ran /\ CrossTutor(last', last'.a.tok.uid)) =>
            /\ UNCHANGED Database
            /\ last'.status \in {400, 403, 404}
            /\ "rows" \in DOMAIN last'.req => last'.req.rows = {}
       /\ (last'.ran /\ last'.op \in {"GET /vacinas", "GET /vacinas/proximas"}) =>
            \A r \in last'.req.rows : TutorDe(r.animalId) = last'.a.tok.uid
      ]_vars

\* C17: a request answered 400, 401, 403, 404 or 409 leaves every table as
\* it was.
C17_ErrorsLeaveTables ==
    [][last'.status \in {400, 401, 403, 404, 409} => UNCHANGED Database]_vars

\* Witness of C17: with an appointment stored, a POST /consultas for the
\* taken slot has been answered 409.
C17_Witness ==
    /\ last.op = "POST /consultas"
    /\ last.status = 409
    /\ consultas # {}

\* ---------------------------------------- specification: veterinarian ---
\* A tutor with an animal and a user registered with tipo 'veterinario'
\* log in and send the animal routes, one request at a time, debug off.

UserVet == [UserB EXCEPT !.tipo = "veterinario"]

InitVet ==
    /\ users = {UserA, UserVet}
    /\ nextUserId = 3
    /\ animais = {Animal1}
    /\ nextAnimalId = 3
    /\ consultas = {}
    /\ nextConsultaId = 1
    /\ invalidated_tokens = {}
    /\ issued = {}
    /\ loggedOut = {}
    /\ now = 0
    /\ debugMode = FALSE
    /\ serverPc = "listening"
    /\ nextSweep = CleanupInterval
    /\ inflight = <<>>
    /\ last = NoLast
    /\ vacinas = {}
    /\ nextVacinaId = 1
    /\ exames = {}
    /\ nextExameId = 1
    /\ receitas = {}
    /\ nextReceitaId = 1
    /\ tables = AllTables
    /\ seeded = TRUE

NextVet ==
    \/ \E e \in Emails, p \in {Pin1, Pin2} : PostLogin(e, p)
    \/ \E tok \in RoutesTokens, id \in 1..MaxUsers : GetUtilizadoresAnimais(Bearer(tok), id)
    \/ \E tok \in RoutesTokens, id \in 1..2 : GetAnimais(Bearer(tok), id)
    \/ \E tok \in RoutesTokens, id \in 1..2, n \in {NoNome, "Max", "Rex"} :
          PutAnimais(Bearer(tok), id, n)
    \/ Tick

SpecVet == InitVet /\ [][NextVet]_vars

\* The token was issued to a user registered as veterinarian
IsVeterinario(tok) == \E u \in users : u.id = tok.uid /\ u.tipo = "veterinario"

\* C14: a request made with the token of a logged-in veterinarian reads
\* animals of other users (GET /animais/:animalId and
\* GET /utilizadores/:userId/animais answer 200 with the rows), and its
\* PUT /animais/:id for an animal of another user is answered 403 and
\* changes nothing.
C14_VeterinarioReadOnly ==
    [][(last'.ran /\ IsVeterinario(last'.a.tok)) =>
          /\ (last'.op = "GET /animais/:animalId"
                /\ \E an \in animais : an.id = last'.req.animalId) =>
                   /\ last'.status = 200
                   /\ last'.req.rows = {an \in animais : an.id = last'.req.animalId}
          /\ last'.op = "GET /utilizadores/:userId/animais" =>
                   /\ last'.status = 200
                   /\ last'.req.rows = AnimaisDe(last'.req.userId)
          /\ (last'.op = "PUT /animais/:id" /\ last'.req.nome # NoNome
                /\ \E an \in animais : an.id = last'.req.id /\ an.tutorId # last'.a.tok.uid) =>
                   /\ last'.status = 403
                   /\ UNCHANGED animais
      ]_vars

\* ------------------------------------------------ claims: vet and clinic ---

\* The veterinarian of the row works at the row's clinic
Paired(vet, clinica) == \E v \in Veterinarios : v.id = vet /\ v.clinicaId = clinica

\* The value a PUT stores for a field: the supplied one unless it is absent
Supplied(v, old) == IF v # Undef THEN v ELSE old

\* C15: every stored appointment has a veterinarian of its clinic, and a
\* POST /consultas or PUT /consultas/:id by the owner whose resulting pair
\* (veterinarioId, clinicaId) is not one of a veterinarian and their clinic,
\* null, 0 and unchanged values included, is answered 400 and changes
\* nothing.
C15_ConsultaVetClinica ==
    /\ [](\A c \in consultas : Paired(c.veterinarioId, c.clinicaId))
    /\ [][/\ (last'.ran /\ last'.op = "POST /consultas"
                /\ \E an \in animais : an.id = last'.req.animalId
                                         /\ an.tutorId = last'.a.tok.uid
                /\ ~Paired(last'.req.veterinarioId, last'.req.clinicaId)) =>
                   last'.status = 400 /\ UNCHANGED consultas
          /\ (last'.ran /\ last'.op = "PUT /consultas/:id") =>
                \A c \in consultas :
                   (/\ c.id = last'.req.id
                    /\ c.userId = last'.a.tok.uid
                    /\ ~Paired(Supplied(last'.req.veterinarioId, c.veterinarioId),
                               Supplied(last'.req.clinicaId, c.clinicaId))) =>
                      last'.status = 400 /\ UNCHANGED consultas
         ]_vars

\* C16: after POST /exames and PUT /exames/:id every stored exam has a
\* veterinarian of its clinic, also when the PUT supplies a new clinicaId
\* and no veterinarioId.
C16_ExameVetClinica == \A e \in exames : Paired(e.veterinarioId, e.clinicaId)

\* ------------------------------ earlier iteration: rows of a deleted user ---
\* Table consultas of the earlier iteration has userId REFERENCES users ON
\* DELETE CASCADE and a plain INTEGER animalId; animais, receitas, exames
\* and vacinas cascade from their parent.

\* POST /animais with the INSERT accepted whatever the tutor
OldPostAnimaisNoFk(a, nome) ==
    LET op == "POST /animais"
        req == [nome |-> nome]
        auth == OldAuthOf(a) IN
    IF ~auth.next
    THEN last' = OldRejected(op, a, req) /\ UnchangedBut({})
    ELSE IF nome = NoNome
    THEN last' = GuardedResp(op, 400, a, req) /\ UnchangedBut({})
    ELSE /\ nextAnimalId <= MaxRows + 2
         /\ animais' = animais \cup
               {[id |-> nextAnimalId, tutorId |-> auth.user.id, nome |-> nome]}
         /\ nextAnimalId' = nextAnimalId + 1
         /\ last' = GuardedResp(op, 201, a, req)
         /\ UnchangedBut({"animais"})

\* POST /animais.  tutorId references users: the INSERT of a token holder
\* whose row is gone is rejected.
OldPostAnimais(a, nome) ==
    LET op == "POST /animais"
        req == [nome |-> nome]
        auth == OldAuthOf(a) IN
    IF ~auth.next
    THEN last' = OldRejected(op, a, req) /\ UnchangedBut({})
    ELSE IF nome = NoNome
    THEN last' = GuardedResp(op, 400, a, req) /\ UnchangedBut({})
    ELSE IF UsersById(auth.user.id) = {}
    THEN last' = GuardedResp(op, 500, a, req) /\ UnchangedBut({})
    ELSE /\ nextAnimalId <= MaxRows + 2
         /\ animais' = animais \cup
               {[id |-> nextAnimalId, tutorId |-> auth.user.id, nome |-> nome]}
         /\ nextAnimalId' = nextAnimalId + 1
         /\ last' = GuardedResp(op, 201, a, req)
         /\ UnchangedBut({"animais"})

TiposDocumento == {"receita", "vacina", "exame"}

\* POST /documentos.  The handler does not look at the owner of the animal;
\* animalId references animais.  The INSERT into vacinas leaves out
\* data_agendada, which is NOT NULL, and is rejected.
OldPostDocumentos(a, tipo, animalId) ==
    LET op == "POST /documentos"
        req == [tipo |-> tipo, animalId |-> animalId]
        auth == OldAuthOf(a)
        fk == \E an \in animais : an.id = animalId IN
    IF ~auth.next
    THEN last' = OldRejected(op, a, req) /\ UnchangedBut({})
    ELSE IF tipo = "" \/ ~Truthy(animalId)
    THEN last' = GuardedResp(op, 400, a, req) /\ UnchangedBut({})
    ELSE IF tipo = "receita"
    THEN IF ~fk
         THEN last' = GuardedResp(op, 500, a, req) /\ UnchangedBut({})
         ELSE /\ nextReceitaId <= MaxRows
              /\ receitas' = receitas \cup {[id |-> nextReceitaId, animalId |-> animalId]}
              /\ nextReceitaId' = nextReceitaId + 1
              /\ last' = GuardedResp(op, 201, a, req)
              /\ UnchangedBut({"receitas"})
    ELSE IF tipo = "vacina"
    THEN last' = GuardedResp(op, 500, a, req) /\ UnchangedBut({})
    ELSE IF tipo = "exame"
    THEN IF ~fk
         THEN last' = GuardedResp(op, 500, a, req) /\ UnchangedBut({})
         ELSE /\ nextExameId <= MaxRows
              /\ exames' = exames \cup {[id |-> nextExameId, animalId |-> animalId]}
              /\ nextExameId' = nextExameId + 1
              /\ last' = GuardedResp(op, 201, a, req)
              /\ UnchangedBut({"exames"})
    ELSE last' = GuardedResp(op, 400, a, req) /\ UnchangedBut({})

\* POST /consultas of the earlier iteration.  data is a day ('YYYY-MM-DD',
\* read by new Date as UTC midnight), hora a time of day; the conflict query
\* runs first.
OldPostConsultas(a, b) ==
    LET op == "POST /consultas"
        auth == OldAuthOf(a)
        row == [id |-> nextConsultaId, userId |-> auth.user.id, animalId |-> b.animalId,
                clinicaId |-> b.clinicaId, veterinarioId |-> b.veterinarioId,
                data |-> b.data, hora |-> b.hora, estado |-> "marcada"] IN
    IF ~auth.next
    THEN last' = OldRejected(op, a, b) /\ UnchangedBut({})
    ELSE IF ConsultaConflito(b.veterinarioId, b.data, b.hora) # {}
    THEN last' = GuardedResp(op, 409, a, b) /\ UnchangedBut({})
    ELSE IF \/ ~Truthy(b.animalId) \/ ~Truthy(b.clinicaId) \/ ~Truthy(b.veterinarioId)
            \/ b.data = NoDate \/ b.hora = Undef
    THEN last' = GuardedResp(op, 400, a, b) /\ UnchangedBut({})
    ELSE IF b.data * HoursPerDay < Hoje(now)
    THEN last' = GuardedResp(op, 400, a, b) /\ UnchangedBut({})
    ELSE IF VeterinarioCheck(b.veterinarioId, b.clinicaId) = {}
    THEN last' = GuardedResp(op, 400, a, b) /\ UnchangedBut({})
    ELSE IF {an \in animais : an.id = b.animalId /\ an.tutorId = auth.user.id} = {}
    THEN last' = GuardedResp(op, 403, a, b) /\ UnchangedBut({})
    ELSE IF UsersById(auth.user.id) = {}
    THEN last' = GuardedResp(op, 500, a, b) /\ UnchangedBut({})
    ELSE /\ nextConsultaId <= MaxConsultas
         /\ consultas' = consultas \cup {row}
         /\ nextConsultaId' = nextConsultaId + 1
         /\ last' = GuardedResp(op, 201, a, b)
         /\ UnchangedBut({"consultas"})

\* POST /vacinas/agendar of the earlier iteration
OldPostVacinasAgendar(a, b) ==
    LET op == "POST /vacinas/agendar"
        auth == OldAuthOf(a) IN
    IF ~auth.next
    THEN last' = OldRejected(op, a, b) /\ UnchangedBut({})
    ELSE IF ~Truthy(b.animalId) \/ ~Truthy(b.tipo_vacina_id) \/ b.data_agendada = NoDate
    THEN last' = GuardedResp(op, 400, a, b) /\ UnchangedBut({})
    ELSE IF {an \in AnimaisDe(auth.user.id) : an.id = b.animalId} = {}
    THEN last' = GuardedResp(op, 404, a, b) /\ UnchangedBut({})
    ELSE IF b.tipo_vacina_id \notin TiposVacina
    THEN last' = GuardedResp(op, 404, a, b) /\ UnchangedBut({})
    ELSE IF b.data_agendada < now
    THEN last' = GuardedResp(op, 400, a, b) /\ UnchangedBut({})
    ELSE /\ nextVacinaId <= MaxRows
         /\ vacinas' = vacinas \cup
               {[id |-> nextVacinaId, animalId |-> b.animalId,
                 tipo_vacina_id |-> b.tipo_vacina_id, data_agendada |-> b.data_agendada,
                 estado |-> "agendada", notificado |-> FALSE]}
         /\ nextVacinaId' = nextVacinaId + 1
         /\ last' = GuardedResp(op, 201, a, b)
         /\ UnchangedBut({"vacinas"})

OldConsultaBodies ==
    {[animalId |-> an, clinicaId |-> 1, veterinarioId |-> 1, data |-> 0, hora |-> h] :
        an \in {1, 2}, h \in {9, Undef}}

OldVacinaBodies ==
    {[animalId |-> an, tipo_vacina_id |-> 1, data_agendada |-> d] :
        an \in {1, 2}, d \in {HoursPerDay, NoDate}}

\* The account of a tutor is deleted while they and another tutor, each
\* with a token and an animal, create animals, documents, appointments and
\* vaccines.
NextOldData ==
    \/ \E id \in 1..MaxUsers : OldDeleteUsuario(id)
    \/ \E tok \in RoutesTokens, n \in {NoNome, "Max"} :
          OldPostAnimais(Bearer(tok), n) /\ RoutesBudget
    \/ \E tok \in RoutesTokens, t \in TiposDocumento \cup {"", "outro"}, id \in 1..3 :
          OldPostDocumentos(Bearer(tok), t, id) /\ RoutesBudget
    \/ \E tok \in RoutesTokens, b \in OldConsultaBodies :
          OldPostConsultas(Bearer(tok), b) /\ RoutesBudget
    \/ \E tok \in RoutesTokens, b \in OldVacinaBodies :
          OldPostVacinasAgendar(Bearer(tok), b) /\ RoutesBudget

SpecOldData == Init /\ [][NextOldData]_vars

\* Every row's parent rows exist
OldReferences ==
    /\ \A an \in animais : UsersById(an.tutorId) # {}
    /\ \A c \in consultas :
          UsersById(c.userId) # {} /\ \E an \in animais : an.id = c.animalId
    /\ \A d \in vacinas \cup exames \cup receitas : \E an \in animais : an.id = d.animalId

\* C18: in the earlier iteration, a successful DELETE /usuarios/:id leaves
\* no animal or appointment of that user and no vaccine, exam or
\* prescription of their animals; and in every state each appointment's
\* user and animal exist, each animal's tutor exists, and each vaccine,
\* exam and prescription belongs to an existing animal.
C18_DeleteCascades ==
    /\ []OldReferences
    /\ [][(last'.op = "DELETE /usuarios/:id" /\ last'.status = 200) =>
            /\ \A u \in users' : u.id # last'.req.id
            /\ \A an \in animais' : an.tutorId # last'.req.id
            /\ \A c \in consultas' : c.userId # last'.req.id
            /\ \A d \in vacinas' \cup exames' \cup receitas' :
                  \A an \in animais : an.id = d.animalId => an.tutorId # last'.req.id
         ]_vars

\* Witness of C18: user 1, whose animal had an exam, has been deleted, and
\* the animal and the exam are gone with them.
C18_Witness ==
    /\ last.op = "DELETE /usuarios/:id"
    /\ last.status = 200
    /\ last.req.id = 1
    /\ users = {UserB}
    /\ nextExameId = 2
    /\ exames = {}
    /\ animais = {Animal2}

\* ------------------------------------------------ specification: startup ---
\* startServer on a database that holds some of the tables: initDatabase
\* runs its CREATE TABLE IF NOT EXISTS statements in order, then
\* seedDatabase; an error ends initDatabase in its catch block, which logs
\* and returns; then cleanupExpiredTokens runs and the server listens.

\* The statements of initDatabase in order, each with the tables its
\* REFERENCES clauses name
CreateStatements ==
    <<[table |-> "users", refs |-> {}],
      [table |-> "clinicas", refs |-> {}],
      [table |-> "veterinarios", refs |-> {"clinicas"}],
      [table |-> "consultas", refs |-> {"users", "animais", "clinicas", "veterinarios"}],
      [table |-> "animais", refs |-> {"users"}],
      [table |-> "tipos_exame", refs |-> {}],
      [table |-> "exames", refs |-> {"animais", "tipos_exame", "clinicas", "veterinarios"}],
      [table |-> "invalidated_tokens", refs |-> {"users"}],
      [table |-> "tipos_vacina", refs |-> {}],
      [table |-> "vacinas", refs |-> {"animais", "tipos_vacina", "clinicas", "veterinarios"}]>>

\* The tables that seedDatabase fills
SeedTables == {"clinicas", "veterinarios", "tipos_vacina", "tipos_exame"}

\* A database in which every table's referenced tables exist
SchemaClosed(ts) ==
    \A k \in DOMAIN CreateStatements :
        CreateStatements[k].table \in ts => CreateStatements[k].refs \subseteq ts

\* The position after statement k
AfterStatement(k) ==
    IF k = Len(CreateStatements) THEN "seed" ELSE CreateStatements[k + 1].table

\* The tables that initDatabase found when it was called
Found == IF serverPc = CreateStatements[1].table THEN tables ELSE last.req.found

\* One statement of initDatabase.  CREATE TABLE IF NOT EXISTS does nothing
\* for a table that exists; it is rejected when a referenced table does
\* not exist, and the catch block of initDatabase ends the function.
CreateTable ==
    \E k \in DOMAIN CreateStatements :
        LET st == CreateStatements[k]
            req == [table |-> st.table, found |-> Found] IN
        /\ serverPc = st.table
        /\ IF st.table \in tables
           THEN /\ tables' = tables
                /\ serverPc' = AfterStatement(k)
                /\ last' = Resp("initDatabase", 0, req)
           ELSE IF st.refs \subseteq tables
           THEN /\ tables' = tables \cup {st.table}
                /\ serverPc' = AfterStatement(k)
                /\ last' = Resp("initDatabase", 0, req)
           ELSE /\ tables' = tables
                /\ serverPc' = "cleanup"
                /\ last' = Resp("initDatabase", 500, req)
        /\ UNCHANGED <<seeded, nextSweep>>
        /\ UnchangedBut({"server", "schema"})

\* seedDatabase: the reference rows are inserted where there are none
SeedDatabase ==
    /\ serverPc = "seed"
    /\ seeded' = TRUE
    /\ serverPc' = "cleanup"
    /\ last' = Resp("seedDatabase", 0, [table |-> "clinicas", found |-> Found])
    /\ UNCHANGED <<tables, nextSweep>>
    /\ UnchangedBut({"server", "schema"})

InitStartup ==
    /\ tables \in {ts \in SUBSET AllTables : SchemaClosed(ts)}
    /\ seeded \in {s \in BOOLEAN : s => SeedTables \subseteq tables}
    /\ serverPc = CreateStatements[1].table
    /\ users = {}
    /\ nextUserId = 1
    /\ animais = {}
    /\ nextAnimalId = 1
    /\ consultas = {}
    /\ nextConsultaId = 1
    /\ invalidated_tokens = {}
    /\ issued = {}
    /\ loggedOut = {}
    /\ now = 0
    /\ debugMode = FALSE
    /\ nextSweep = CleanupInterval
    /\ inflight = <<>>
    /\ last = NoLast
    /\ vacinas = {}
    /\ nextVacinaId = 1
    /\ exames = {}
    /\ nextExameId = 1
    /\ receitas = {}
    /\ nextReceitaId = 1

NextStartup ==
    \/ CreateTable
    \/ SeedDatabase
    \/ StartCleanupAndListen("invalidated_tokens" \notin tables)

SpecStartup == InitStartup /\ [][NextStartup]_vars

\* C19: when the server is started on an empty database, then once
\* initDatabase has returned (nothing but cleanupExpiredTokens runs between
\* that and app.listen) every table exists and the reference data is
\* seeded.
C19_StartupOnEmptyDatabase ==
    (serverPc = "cleanup" /\ last.req.found = {}) => (tables = AllTables /\ seeded)

\* ------------------------------------- earlier iteration: PIN recovery ---

\* POST /usuarios/recuperar-pin on the users table us: the status and the
\* keys of the JSON body of the response, and whether a code is stored
RecuperarPinResponse(us, email) ==
    IF email = NoEmail
    THEN [status |-> 400, keys |-> {"error"}, stores |-> FALSE]
    ELSE IF {u \in us : u.email = email} = {}
    THEN [status |-> 200, keys |-> {"message"}, stores |-> FALSE]
    ELSE [status |-> 200, keys |-> {"message", "codigoRecuperacao"}, stores |-> TRUE]

\* POST /usuarios/recuperar-pin; code is the value drawn with Math.random
OldPostRecuperarPin(email, code) ==
    LET op == "POST /usuarios/recuperar-pin"
        r == RecuperarPinResponse(users, email)
        req == [email |-> email, keys |-> r.keys] IN
    /\ last' = Resp(op, r.status, req)
    /\ IF r.stores
       THEN /\ users' = {IF u.email = email THEN [u EXCEPT !.codigoVerificacao = code]
                         ELSE u : u \in users}
            /\ UnchangedBut({"users"})
       ELSE UnchangedBut({})

\* POST /usuarios/redefinir-pin
OldPostRedefinirPin(email, code, novoPin) ==
    LET op == "POST /usuarios/redefinir-pin"
        req == [email |-> email, code |-> code, novoPin |-> novoPin] IN
    IF email = NoEmail \/ code = NoCode \/ novoPin = NoPin
    THEN last' = Resp(op, 400, req) /\ UnchangedBut({})
    ELSE IF ~PinFormatOk(novoPin)
    THEN last' = Resp(op, 400, req) /\ UnchangedBut({})
    ELSE IF UsersByEmail(email) = {}
    THEN last' = Resp(op, 404, req) /\ UnchangedBut({})
    ELSE IF \E u \in UsersByEmail(email) : u.codigoVerificacao # code
    THEN last' = Resp(op, 400, req) /\ UnchangedBut({})
    ELSE /\ users' = {IF u.email = email
                      THEN [u EXCEPT !.codigoVerificacao = NoCode,
                                     !.pin = BcryptHash(JsString(novoPin))]
                      ELSE u : u \in users}
         /\ last' = Resp(op, 200, req)
         /\ UnchangedBut({"users"})

NextRecover ==
    \/ \E e \in Emails \cup {"c@x", NoEmail}, c \in Codes : OldPostRecuperarPin(e, c)
    \/ \E e \in Emails \cup {"c@x"}, c \in Codes \cup {NoCode}, p \in {Pin1, Pin2, PinShort} :
          OldPostRedefinirPin(e, c, p)
    \/ \E e \in Emails, p \in {Pin1, Pin2} : OldPostLogin(e, p)
    \/ \E id \in 1..MaxUsers : OldDeleteUsuario(id)

SpecRecover == InitOld /\ [][NextRecover]_vars

\* C20: the response of POST /usuarios/recuperar-pin has the same status
\* and the same keys whether or not the requested email belongs to a user:
\* the response given equals the response of the handler in the state that
\* differs from the current one by the row of that user.
C20_RecuperarPinHidesEmail ==
    last.op = "POST /usuarios/recuperar-pin" =>
        LET without == RecuperarPinResponse({u \in users : u.email # last.req.email},
                                            last.req.email) IN
        last.status = without.status /\ last.req.keys = without.keys

\* ------------------------- earlier iteration: appointments and documents ---

\* GET /consultas/user/:userId of the earlier iteration: the rows of the
\* user named in the route, whoever asks
OldGetConsultasUser(a, userId) ==
    LET op == "GET /consultas/user/:userId"
        auth == OldAuthOf(a) IN
    IF ~auth.next
    THEN last' = OldRejected(op, a, [userId |-> userId, rows |-> {}]) /\ UnchangedBut({})
    ELSE last' = GuardedResp(op, 200, a,
                     [userId |-> userId, rows |-> {c \in consultas : c.userId = userId}])
         /\ UnchangedBut({})

\* DELETE /consultas/:id of the earlier iteration: DELETE ... WHERE id = $1
OldDeleteConsultas(a, id) ==
    LET op == "DELETE /consultas/:id"
        req == [id |-> id]
        auth == OldAuthOf(a)
        found == {c \in consultas : c.id = id} IN
    IF ~auth.next
    THEN last' = OldRejected(op, a, req) /\ UnchangedBut({})
    ELSE IF found = {}
    THEN last' = GuardedResp(op, 404, a, req) /\ UnchangedBut({})
    ELSE /\ consultas' = consultas \ found
         /\ nextConsultaId' = nextConsultaId
         /\ last' = GuardedResp(op, 200, a, req)
         /\ UnchangedBut({"consultas"})

NextOldAccess ==
    \/ \E tok \in RoutesTokens, b \in OldConsultaBodies :
          OldPostConsultas(Bearer(tok), b) /\ RoutesBudget
    \/ \E tok \in RoutesTokens, id \in 1..MaxUsers : OldGetConsultasUser(Bearer(tok), id)
    \/ \E tok \in RoutesTokens, id \in 1..MaxConsultas : OldDeleteConsultas(Bearer(tok), id)
    \/ \E tok \in RoutesTokens, t \in TiposDocumento \cup {"", "outro"}, id \in 1..3 :
          OldPostDocumentos(Bearer(tok), t, id) /\ RoutesBudget

SpecOldAccess == Init /\ [][NextOldAccess]_vars

\* C21: in the earlier iteration a request made with the token of tutor V
\* that lists the appointments of another user who has some, cancels an
\* appointment of another user, or creates a document for an animal of
\* another user, is answered 403, returns no row and changes nothing.
C21_OldCrossTutorRefused ==
    [][(/\ last'.ran
        /\ \/ /\ last'.op = "GET /consultas/user/:userId"
              /\ \E c \in consultas : c.userId = last'.req.userId
                                        /\ c.userId # last'.a.tok.uid
           \/ /\ last'.op = "DELETE /consultas/:id"
              /\ \E c \in consultas : c.id = last'.req.id /\ c.userId # last'.a.tok.uid
           \/ /\ last'.op = "POST /documentos"
              /\ last'.req.tipo \in TiposDocumento
              /\ \E an \in animais : an.id = last'.req.animalId
                                       /\ an.tutorId # last'.a.tok.uid) =>
          /\ last'.status = 403
          /\ UNCHANGED Database
          /\ "rows" \in DOMAIN last'.req => last'.req.rows = {}
      ]_vars

\* --------------------------------------------- claims: verification code ---

\* C22: POST /utilizadores/verificar for an existing user with the stored
\* code answers 200, sets verificado and clears the code; with any other
\* code, and with any code once the stored one is cleared, it answers 400
\* and leaves the users as they are; and no step takes verificado of a
\* user from true to false.
C22_VerificationCodeSingleUse ==
    [][/\ (last'.op = "POST /utilizadores/verificar" /\ last'.req.email # NoEmail) =>
            \A u \in UsersByEmail(last'.req.email) :
               IF u.codigoVerificacao # NoCode /\ u.codigoVerificacao = last'.req.code
               THEN /\ last'.status = 200
                    /\ \A w \in users' : w.id = u.id =>
                          w.verificado /\ w.codigoVerificacao = NoCode
               ELSE last'.status = 400 /\ UNCHANGED users
       /\ \A u \in users : u.verificado => \A w \in users' : w.id = u.id => w.verificado
      ]_vars

\* Witness of C22: a verified user, whose code is cleared, has sent the
\* code again and has been answered 400.
C22_Witness ==
    /\ last.op = "POST /utilizadores/verificar"
    /\ last.status = 400
    /\ last.req.code = "111111"
    /\ \E u \in UsersByEmail(last.req.email) :
          u.verificado /\ u.codigoVerificacao = NoCode

\* ------------------------------------------- specification: cancelling ---
\* Two tutors book and cancel appointments for one slot of veterinarian 1
\* while the clock runs.

CancelBodies ==
    {[animalId |-> an, clinicaId |-> 1, veterinarioId |-> 1, data |-> 0] : an \in {1, 2}}
    \cup {[animalId |-> 1, clinicaId |-> 1, veterinarioId |-> 1, data |-> NoDate],
          [animalId |-> 1, clinicaId |-> 2, veterinarioId |-> 1, data |-> 0]}

NextCancel ==
    \/ \E tok \in RoutesTokens, b \in CancelBodies : PostConsultas(Bearer(tok), b)
    \/ \E tok \in RoutesTokens, id \in 1..MaxConsultas : DeleteConsultas(Bearer(tok), id)
    \/ TimerCleanup(FALSE)
    \/ Tick

SpecCancel == Init /\ [][NextCancel]_vars

\* C23: when DELETE /consultas/:id has just succeeded for an appointment on
\* (vet, date, time), the POST /consultas that follows for the same (vet,
\* date, time), valid in everything else, is answered 201 and never 409.
C23_CancelFreesSlot ==
    [][(/\ last.op = "DELETE /consultas/:id" /\ last.status = 200
        /\ last'.op = "POST /consultas" /\ last'.ran
        /\ IsDate(last'.req.data)
        /\ last'.req.veterinarioId = last.req.detalhes.veterinarioId
        /\ DataSql(last'.req.data) = last.req.detalhes.data
        /\ HoraSql(last'.req.data) = last.req.detalhes.hora) =>
          /\ last'.status # 409
          /\ PostValid(last'.req, last'.a.tok) => last'.status = 201
      ]_vars

\* Witness of C23: the first appointment of the slot has been cancelled and
\* the POST for the slot has been accepted as the second appointment.
C23_Witness ==
    /\ last.op = "POST /consultas"
    /\ last.status = 201
    /\ nextConsultaId = 3
    /\ \A c \in consultas : c.id = 2
    /\ consultas # {}

\* --------------------------------------------- specification: vaccines ---
\* The vaccine routes of the current iteration for two tutors during the
\* first hours of the server: vaccines are scheduled for the current hour
\* or eight days ahead.

VacinaBodies ==
    {[animalId |-> 1, tipo_vacina_id |-> 1, data_agendada |-> d,
      clinicaId |-> Undef, veterinarioId |-> Undef] :
        d \in {0, (DaysAhead + 1) * HoursPerDay}}
    \cup {[animalId |-> 2, tipo_vacina_id |-> 1, data_agendada |-> 0,
           clinicaId |-> Undef, veterinarioId |-> Undef]}

PutVacinaBodies ==
    {[tipo_vacina_id |-> 1, clinicaId |-> Undef, veterinarioId |-> Undef],
     [tipo_vacina_id |-> 3, clinicaId |-> Undef, veterinarioId |-> Undef]}

RealizadaBodies ==
    {[dataAplicacao |-> d, veterinarioId |-> Undef] : d \in {NoDate, BadDate}}

NextVacinasClock ==
    \/ \E tok \in RoutesTokens, b \in VacinaBodies : PostVacinasAgendar(Bearer(tok), b)
    \/ \E tok \in RoutesTokens, id \in 1..MaxRows, b \in PutVacinaBodies :
          PutVacinas(Bearer(tok), id, b)
    \/ \E tok \in RoutesTokens, id \in 1..MaxRows : DeleteVacinas(Bearer(tok), id)
    \/ \E tok \in RoutesTokens, id \in 1..MaxRows, b \in RealizadaBodies :
          PostVacinasRealizada(Bearer(tok), id, b)
    \/ \E tok \in RoutesTokens : GetVacinasProximas(Bearer(tok))
    \/ Tick

SpecVacinas == Init /\ [][NextVacinasClock]_vars

\* C24: POST /vacinas/agendar stores estado 'agendada' with notificado
\* false; POST /vacinas/:id/realizada by the owning tutor sets 'realizada'; a
\* second realizada request on the vaccine is answered 400 and changes
\* nothing; no operation moves a vaccine from 'realizada' back to 'agendada'.
C24_VacinaEstadoOneWay ==
    [][/\ (last'.op = "POST /vacinas/agendar" /\ last'.status = 201) =>
            /\ vacinas' # vacinas
            /\ \A w \in vacinas' \ vacinas : w.estado = "agendada" /\ ~w.notificado
       /\ (last'.op = "POST /vacinas/:id/realizada" /\ last'.ran) =>
            \A v \in vacinas :
               (v.id = last'.req.id /\ TutorDe(v.animalId) = last'.a.tok.uid) =>
                  IF v.estado = "realizada"
                  THEN last'.status = 400 /\ UNCHANGED Database
                  ELSE /\ last'.req.dataAplicacao = NoDate => last'.status = 200
                       /\ last'.status = 200 =>
                            \E w \in vacinas' : w.id = v.id /\ w.estado = "realizada"
       /\ \A v \in vacinas : v.estado = "realizada" =>
            \A w \in vacinas' : w.id = v.id => w.estado = "realizada"
      ]_vars

\* Witness of C24: a second realizada request by the owner was refused.
C24_Witness ==
    /\ last.op = "POST /vacinas/:id/realizada"
    /\ last.status = 400
    /\ last.req.dataAplicacao = NoDate
    /\ \E v \in vacinas : /\ v.id = last.req.id
                          /\ v.estado = "realizada"
                          /\ TutorDe(v.animalId) = last.a.tok.uid

\* The rows GET /vacinas/proximas is about for user u: the scheduled
\* vaccines of u's animals of the next seven days
Proximas(u) ==
    {v \in vacinas : /\ TutorDe(v.animalId) = u
                     /\ v.estado = "agendada"
                     /\ now <= v.data_agendada
                     /\ v.data_agendada <= now + DaysAhead * HoursPerDay}

\* C25: after GET /vacinas/proximas returns for user U, every scheduled
\* vaccine of U's animals of the next seven days has notificado true; the
\* vaccines of other users, the vaccines outside the window and every other
\* column are unchanged; no operation resets notificado from true to false.
C25_ProximasMarksNotificado ==
    [][/\ (last'.op = "GET /vacinas/proximas" /\ last'.status = 200) =>
            /\ \A v \in Proximas(last'.a.tok.uid) :
                  [v EXCEPT !.notificado = TRUE] \in vacinas'
            /\ \A v \in vacinas \ Proximas(last'.a.tok.uid) : v \in vacinas'
            /\ {w.id : w \in vacinas'} = {v.id : v \in vacinas}
            /\ UNCHANGED <<users, nextUserId, animais, nextAnimalId, consultas,
                           nextConsultaId, nextVacinaId, exames, nextExameId,
                           receitas, nextReceitaId, invalidated_tokens>>
       /\ \A v \in vacinas : v.notificado =>
            \A w \in vacinas' : w.id = v.id => w.notificado
      ]_vars

\* Witness of C25: the request marked a vaccine of the caller while a
\* vaccine of the other tutor and a vaccine outside the window stay unmarked.
C25_Witness ==
    /\ last.op = "GET /vacinas/proximas"
    /\ last.status = 200
    /\ \E v \in vacinas : TutorDe(v.animalId) = last.a.tok.uid /\ v.notificado
    /\ \E v \in vacinas : /\ ~v.notificado
                          /\ v.estado = "agendada"
                          /\ \/ TutorDe(v.animalId) # last.a.tok.uid
                             \/ v.data_agendada < now
                             \/ v.data_agendada > now + DaysAhead * HoursPerDay

\* ------------------------------------------------ specification: debug ---
\* Guarded routes called with and without ?debug=true, with every kind of
\* token, on a server started with DEBUG_MODE set or not set.

InitDebug ==
    /\ users = {UserA, UserB}
    /\ nextUserId = 3
    /\ animais = {Animal1, Animal2}
    /\ nextAnimalId = 3
    /\ consultas = {}
    /\ nextConsultaId = 1
    /\ invalidated_tokens = {}
    /\ issued = {JwtSign(UserA, 0), JwtSign(UserB, 0)}
    /\ loggedOut = {}
    /\ now = 0
    /\ debugMode \in BOOLEAN
    /\ serverPc = "listening"
    /\ nextSweep = CleanupInterval
    /\ inflight = <<>>
    /\ last = NoLast
    /\ vacinas = {}
    /\ nextVacinaId = 1
    /\ exames = {}
    /\ nextExameId = 1
    /\ receitas = {}
    /\ nextReceitaId = 1
    /\ tables = AllTables
    /\ seeded = TRUE

NextDebug ==
    \/ \E a \in AuthInputs, userId \in 1..MaxUsers : GetUtilizadoresAnimais(a, userId)
    \/ \E a \in AuthInputs : GetUtilizadores(a)
    \/ \E a \in AuthInputs : PostLogout(a)
    \/ TimerCleanup(FALSE)
    \/ Tick

SpecDebug == InitDebug /\ [][NextDebug]_vars

DebugOps ==
    {"GET /utilizadores/:userId/animais", "GET /utilizadores", "POST /utilizadores/logout"}

\* A token returned by a login, not logged out and not expired
ValidToken(tok) == tok \in issued /\ tok \notin loggedOut /\ now < JwtExp(tok)

\* C26: with DEBUG_MODE 'true' and ?debug=true a guarded request runs
\* without any token as user 999 of tipo 'veterinario' (it reads the
\* animals of any user); when either condition is false, a request without
\* a valid token never reaches the handler of a guarded route.
C26_DebugBypassOnly ==
    [][last'.op \in DebugOps =>
        IF debugMode /\ last'.a.debugQ
        THEN /\ last'.ran
             /\ AuthOf(last'.a).user.id = 999
             /\ AuthOf(last'.a).user.tipo = "veterinario"
             /\ last'.op = "GET /utilizadores/:userId/animais" =>
                   last'.status = 200 /\ last'.req.rows = AnimaisDe(last'.req.userId)
        ELSE ~ValidToken(last'.a.tok) => ~last'.ran
      ]_vars

\* Witness of C26: a request without token read the animals of a user in
\* debug mode.
C26_Witness ==
    /\ debugMode
    /\ last.op = "GET /utilizadores/:userId/animais"
    /\ last.a.debugQ
    /\ last.a.tok = NoToken
    /\ last.status = 200
    /\ last.req.rows # {}

\* C27: every stored appointment has estado 'marcada' in every reachable
\* state: POST /consultas inserts 'marcada', PUT /consultas/:id leaves
\* estado as it is, and DELETE /consultas/:id removes the row.
C27_EstadoAlwaysMarcada ==
    /\ [](\A c \in consultas : c.estado = "marcada")
    /\ [][last'.op = "PUT /consultas/:id" =>
            /\ {d.id : d \in consultas'} = {c.id : c \in consultas}
            /\ \A c \in consultas : \A d \in consultas' :
                  d.id = c.id => d.estado = c.estado]_vars
    /\ [][(last'.op = "DELETE /consultas/:id" /\ last'.status = 200) =>
            \A d \in consultas' : d.id # last'.req.id]_vars

\* Witness of C27: one of two appointments was cancelled and the other is
\* still stored after a PUT for it.
C27_Witness ==
    /\ last.op = "PUT /consultas/:id"
    /\ last.ran
    /\ nextConsultaId = 3
    /\ \E c \in consultas : c.id = last.req.id /\ c.estado = "marcada"
    /\ Cardinality(consultas) = 1

\* ------------------------------- specification: concurrent registration ---
\* POST /utilizadores requests handled at the same time.  The handler awaits
\* three queries (SELECT by email, SELECT by telemovel, INSERT) and the
\* event loop may run another request at each await.

IdleRegistration == [pc |-> "idle", email |-> NoEmail, telemovel |-> NoPhone, status |-> 0]

\* users.email is declared UNIQUE; telemovel has no constraint
UniqueViolationPhone(row) ==
    \E u \in users : u.email = row.email \/ u.telemovel = row.telemovel

UniqueViolation(row) == \E u \in users : u.email = row.email

\* POST /utilizadores up to the SELECT by email
PostUtilizadoresSelectEmail(p, email, telemovel) ==
    LET op == "POST /utilizadores"
        req == [email |-> email, telemovel |-> telemovel]
        status == IF email = NoEmail \/ telemovel = NoPhone THEN 400
                  ELSE IF ~TelemovelRegex(telemovel) THEN 400
                  ELSE IF UsersByEmail(email) # {} THEN 400
                  ELSE 0 IN
    /\ inflight[p].pc = "idle"
    /\ IF status # 0
       THEN /\ last' = Resp(op, status, req)
            /\ inflight' = [inflight EXCEPT ![p] =
                   [pc |-> "done", email |-> email, telemovel |-> telemovel,
                    status |-> status]]
       ELSE /\ last' = last
            /\ inflight' = [inflight EXCEPT ![p] =
                   [pc |-> "phone", email |-> email, telemovel |-> telemovel,
                    status |-> 0]]
    /\ UnchangedBut({"inflight"})

\* POST /utilizadores: the SELECT by telemovel
PostUtilizadoresSelectPhone(p) ==
    LET op == "POST /utilizadores"
        r == inflight[p]
        req == [email |-> r.email, telemovel |-> r.telemovel] IN
    /\ r.pc = "phone"
    /\ IF UsersByPhone(r.telemovel) # {}
       THEN /\ last' = Resp(op, 400, req)
            /\ inflight' = [inflight EXCEPT ![p].pc = "done", ![p].status = 400]
       ELSE /\ last' = last
            /\ inflight' = [inflight EXCEPT ![p].pc = "insert"]
    /\ UnchangedBut({"inflight"})

\* POST /utilizadores from the INSERT to the response.  A rejected INSERT
\* has already taken its value from the sequence of the id column.
PostUtilizadoresInsert(p) ==
    LET op == "POST /utilizadores"
        r == inflight[p]
        req == [email |-> r.email, telemovel |-> r.telemovel]
        row == [id |-> nextUserId, email |-> r.email, telemovel |-> r.telemovel,
                tipo |-> "tutor", verificado |-> FALSE, codigoVerificacao |-> "111111",
                pin |-> NullPin] IN
    /\ r.pc = "insert"
    /\ nextUserId' = nextUserId + 1
    /\ IF UniqueViolation(row)
       THEN /\ last' = Resp(op, 500, req)
            /\ inflight' = [inflight EXCEPT ![p].pc = "done", ![p].status = 500]
            /\ UnchangedBut({"inflight", "nextUserId"})
       ELSE /\ users' = users \cup {row}
            /\ last' = Resp(op, 201, req)
            /\ inflight' = [inflight EXCEPT ![p].pc = "done", ![p].status = 201]
            /\ UnchangedBut({"inflight", "users", "nextUserId"})

InitRegister ==
    /\ users = {}
    /\ nextUserId = 1
    /\ animais = {}
    /\ nextAnimalId = 1
    /\ consultas = {}
    /\ nextConsultaId = 1
    /\ invalidated_tokens = {}
    /\ issued = {}
    /\ loggedOut = {}
    /\ now = 0
    /\ debugMode = FALSE
    /\ serverPc = "listening"
    /\ nextSweep = CleanupInterval
    /\ inflight = [p \in Requests |-> IdleRegistration]
    /\ last = NoLast
    /\ vacinas = {}
    /\ nextVacinaId = 1
    /\ exames = {}
    /\ nextExameId = 1
    /\ receitas = {}
    /\ nextReceitaId = 1
    /\ tables = AllTables
    /\ seeded = TRUE

NextRegister ==
    \/ \E p \in Requests, e \in Emails \cup {NoEmail}, t \in GoodPhones \cup {BadPhone} :
          PostUtilizadoresSelectEmail(p, e, t)
    \/ \E p \in Requests : PostUtilizadoresSelectPhone(p)
    \/ \E p \in Requests : PostUtilizadoresInsert(p)

SpecRegister == InitRegister /\ [][NextRegister]_vars

\* C28: under interleaved registrations at most one user is stored for an
\* email (an INSERT for an email that is already stored is answered 500
\* and stores nothing), while a request that passed the phone check is
\* stored although its telemovel has been stored by another request in the
\* meantime.
C28_RaceEmailNotPhone ==
    /\ [](\A u \in users : \A w \in users : u.email = w.email => u.id = w.id)
    /\ [][\A p \in Requests :
            (inflight[p].pc = "insert" /\ inflight'[p].pc = "done") =>
               IF UsersByEmail(inflight[p].email) # {}
               THEN inflight'[p].status = 500 /\ UNCHANGED users
               ELSE /\ inflight'[p].status = 201
                    /\ \E w \in users' \ users :
                          /\ w.email = inflight[p].email
                          /\ w.telemovel = inflight[p].telemovel
         ]_vars

\* Witness of C28: two users with different emails share one phone number
\* after two interleaved requests were both answered 201.
C28_Witness ==
    /\ \E u \in users : \E w \in users : u.email # w.email /\ u.telemovel = w.telemovel
    /\ \A p \in 1..2 : inflight[p].pc = "done" /\ inflight[p].status = 201


\* ------------------------------------------ specification: PIN takeover ---
\* criar-pin and login for a verified user with a PIN and an unverified
\* user without one, together with a guarded route, logout and the clock.

UserUnverified ==
    [UserB EXCEPT !.pin = NullPin, !.verificado = FALSE, !.codigoVerificacao = "111111"]

InitPinReset ==
    /\ users = {UserA, UserUnverified}
    /\ nextUserId = 3
    /\ animais = {}
    /\ nextAnimalId = 1
    /\ consultas = {}
    /\ nextConsultaId = 1
    /\ invalidated_tokens = {}
    /\ issued = {}
    /\ loggedOut = {}
    /\ now = 0
    /\ debugMode = FALSE
    /\ serverPc = "listening"
    /\ nextSweep = CleanupInterval
    /\ inflight = <<>>
    /\ last = NoLast
    /\ vacinas = {}
    /\ nextVacinaId = 1
    /\ exames = {}
    /\ nextExameId = 1
    /\ receitas = {}
    /\ nextReceitaId = 1
    /\ tables = AllTables
    /\ seeded = TRUE

\* Login is always tried with the PIN user 1 has in the initial state.
NextPinReset ==
    \/ \E e \in Emails \cup {"c@x"}, p \in {Pin1, Pin2, PinShort} : PostCriarPin(e, p)
    \/ \E e \in Emails : PostLogin(e, Pin1)
    \/ \E tok \in issued \cup {NoToken} : GetUtilizadores(Bearer(tok))
    \/ \E tok \in issued : PostLogout(Bearer(tok))
    \/ TimerCleanup(FALSE)
    \/ Tick

SpecPinReset == InitPinReset /\ [][NextPinReset]_vars

\* C29: POST /utilizadores/criar-pin, sent without a token, replaces the PIN
\* of any existing user named by email with a six-character PIN, verified or
\* not, with or without a PIN; afterwards login accepts the new PIN and no
\* other, and every token issued before passes authenticateToken exactly as
\* it did before the request.
C29_CriarPinTakesOver ==
    /\ [][(last'.op = "POST /utilizadores/criar-pin" /\ last'.req.email # NoEmail
           /\ PinFormatOk(last'.req.pin) /\ UsersByEmail(last'.req.email) # {}) =>
            /\ last'.status = 200
            /\ last'.a.tok = NoToken
            /\ \A w \in users' : w.email = last'.req.email =>
                  \A q \in {Pin1, Pin2, PinAlpha} :
                     BcryptCompare(JsString(q), w.pin) <=> q = JsString(last'.req.pin)
            /\ UNCHANGED <<issued, invalidated_tokens, loggedOut, now>>
            /\ \A tok \in issued :
                  AuthenticateToken(FALSE, tok, FALSE).next'
                     = AuthenticateToken(FALSE, tok, FALSE).next
         ]_vars
    /\ [][(last'.op = "POST /utilizadores/login" /\ last'.status = 200) =>
            \E u \in UsersByEmail(last'.req.email) :
               BcryptCompare(JsString(last'.req.pin), u.pin)]_vars

\* Witness of C29: the PIN of the verified user has been replaced (login is
\* only ever sent with the first PIN, so every token was issued before), a
\* token of that user has just passed authenticateToken, and the unverified
\* user has been given a PIN.
C29_Witness ==
    /\ last.op = "GET /utilizadores"
    /\ last.ran
    /\ last.a.tok.uid = 1
    /\ \E u \in users : u.id = 1 /\ u.verificado /\ u.pin = BcryptHash(Pin2)
    /\ \E u \in users : u.id = 2 /\ ~u.verificado /\ u.pin # NullPin

\* --------------------------- specification: first iterations, criar-pin ---
\* The SQLite iteration and the first PostgreSQL iteration: table users has
\* the column nome, without constraint, and POST /usuarios/criar-pin names
\* the user by nome.  Both iterations run the same two statements.

UserNomes == {"Ana", "Rui"}

\* SELECT * FROM users WHERE nome = ?
UsersByNome(n) == {u \in users : u.nome = n}

\* POST /usuarios of the first PostgreSQL iteration
FirstPostUsuarios(nome, email) ==
    LET op == "POST /usuarios"
        req == [nome |-> nome, email |-> email] IN
    IF nome = NoNome \/ email = NoEmail
    THEN last' = Resp(op, 400, req) /\ UnchangedBut({})
    ELSE IF UsersByEmail(email) # {}
    THEN last' = Resp(op, 400, req) /\ UnchangedBut({})
    ELSE /\ nextUserId <= MaxUsers
         /\ nextUserId' = nextUserId + 1
         /\ users' = users \cup
              {[id |-> nextUserId, nome |-> nome, email |-> email, tipo |-> "tutor",
                verificado |-> FALSE, codigoVerificacao |-> "111111", pin |-> NullPin]}
         /\ last' = Resp(op, 201, req)
         /\ UnchangedBut({"users", "nextUserId"})

\* POST /usuarios/criar-pin with an UPDATE of the row that was read
FirstPostCriarPinOneRow(nome, pin) ==
    LET op == "POST /usuarios/criar-pin"
        req == [nome |-> nome, pin |-> pin] IN
    IF nome = NoNome \/ pin = NoPin
    THEN last' = Resp(op, 400, req) /\ UnchangedBut({})
    ELSE IF ~PinFormatOk(pin)
    THEN last' = Resp(op, 400, req) /\ UnchangedBut({})
    ELSE IF UsersByNome(nome) = {}
    THEN last' = Resp(op, 404, req) /\ UnchangedBut({})
    ELSE LET user == CHOOSE u \in UsersByNome(nome) :
                        \A w \in UsersByNome(nome) : u.id <= w.id IN
         /\ users' = {IF u.id = user.id THEN [u EXCEPT !.pin = BcryptHash(JsString(pin))]
                      ELSE u : u \in users}
         /\ last' = Resp(op, 200, req)
         /\ UnchangedBut({"users"})

\* POST /usuarios/criar-pin: UPDATE users SET pin = ? WHERE nome = ?
FirstPostCriarPin(nome, pin) ==
    LET op == "POST /usuarios/criar-pin"
        req == [nome |-> nome, pin |-> pin] IN
    IF nome = NoNome \/ pin = NoPin
    THEN last' = Resp(op, 400, req) /\ UnchangedBut({})
    ELSE IF ~PinFormatOk(pin)
    THEN last' = Resp(op, 400, req) /\ UnchangedBut({})
    ELSE IF UsersByNome(nome) = {}
    THEN last' = Resp(op, 404, req) /\ UnchangedBut({})
    ELSE /\ users' = {IF u.nome = nome THEN [u EXCEPT !.pin = BcryptHash(JsString(pin))]
                      ELSE u : u \in users}
         /\ last' = Resp(op, 200, req)
         /\ UnchangedBut({"users"})

\* PUT /usuarios/:id of the first PostgreSQL iteration, for a body that
\* repeats the stored email and tipo: nome is replaced
FirstPutUsuarios(id, nome) ==
    LET op == "PUT /usuarios/:id"
        req == [id |-> id, nome |-> nome] IN
    IF UsersById(id) = {}
    THEN last' = Resp(op, 404, req) /\ UnchangedBut({})
    ELSE /\ users' = {IF u.id = id THEN [u EXCEPT !.nome = nome] ELSE u : u \in users}
         /\ last' = Resp(op, 200, req)
         /\ UnchangedBut({"users"})

NextFirst ==
    \/ \E n \in UserNomes \cup {NoNome}, e \in Emails : FirstPostUsuarios(n, e)
    \/ \E n \in UserNomes \cup {NoNome}, p \in {Pin1, Pin2, PinShort} : FirstPostCriarPin(n, p)
    \/ \E id \in 1..MaxUsers, n \in UserNomes : FirstPutUsuarios(id, n)

SpecFirst == InitUsers /\ [][NextFirst]_vars

\* C30: a successful POST /usuarios/criar-pin of the first iterations sets
\* the PIN of the request for every user that has the name and for no
\* other user; the number of users whose PIN it sets is the number of users
\* with that name.
C30_CriarPinByNome ==
    [][(last'.op = "POST /usuarios/criar-pin" /\ last'.status = 200) =>
        /\ UsersByNome(last'.req.nome) # {}
        /\ \A u \in users : \E w \in users' :
              /\ w.id = u.id
              /\ w = [u EXCEPT !.pin = IF u.nome = last'.req.nome
                                        THEN BcryptHash(JsString(last'.req.pin))
                                        ELSE u.pin]
        /\ Cardinality(users') = Cardinality(users)
      ]_vars

\* Witness of C30: one request has just set the PIN of two users.
C30_Witness ==
    /\ last.op = "POST /usuarios/criar-pin"
    /\ last.status = 200
    /\ Cardinality(UsersByNome(last.req.nome)) = 2
    /\ \A u \in UsersByNome(last.req.nome) : u.pin = BcryptHash(JsString(last.req.pin))
    /\ \E u \in users : u.id = 1 /\ u.email = "a@x"
    /\ \E u \in users : u.id = 2 /\ u.email = "b@x"

=============================================================================
